---- MODULE Spec2Model ----
(***************************************************************************)
(* Browser-driven completion adapter (eraycc/minitoolapi).                 *)
(*                                                                         *)
(* The repository holds three implementations of the same adapter:         *)
(*   "app"     - src/app.js            (sqlite3, axios, browser per call)  *)
(*   "server"  - src/server.js 1-649   (better-sqlite3, BrowserManager)    *)
(*   "modular" - src/src/*.js, src/unnamed/part_000 (ModelManager) and     *)
(*               src/server.js 651-951 (ChatHandler)                       *)
(* The variable impl says which one a behaviour runs.                      *)
(*                                                                         *)
(* Time is counted in whole days; every SQL statement is one atomic step   *)
(* (no statement of the sources is wrapped in a transaction).              *)
(***************************************************************************)
EXTENDS Integers, Sequences, FiniteSets, TLC

(* ------------------------------ bounds -------------------------------- *)
NumProcs == 2
NumPaths == 2
NumIds == 2
MaxTime == 1
MODEL_CACHE_DAYS == 1
MaxText == 2
MaxWait == 12
MaxLen == 12
MaxTemp == 25
MaxTokens == 3
MaxCloses == 2
MaxPrompt == 12
MaxInflight == 2

(* ---------------------------- configuration --------------------------- *)
Impls == {"app", "server", "modular"}

PathNames ==
  <<"chatGPT", "deepseek", "qwen", "Claude-3", "Gemini", "grok",
    "bytedance-seed", "gpt-oss", "llama">>

LowerNames ==
  <<"chatgpt", "deepseek", "qwen", "claude-3", "gemini", "grok",
    "bytedance-seed", "gpt-oss", "llama">>

PathIdx == 1..(IF NumPaths < Len(PathNames) THEN NumPaths ELSE Len(PathNames))

MODEL_PATHS == {PathNames[i] : i \in PathIdx}

\* path.toLowerCase()
Lower(path) == LowerNames[CHOOSE i \in PathIdx : PathNames[i] = path]

Procs == 1..NumProcs
Ids == 1..NumIds

\* The remote site assigns every model id to one path (ModelRecord.id is unique).
OwnerPath(id) == PathNames[((id - 1) % Cardinality(PathIdx)) + 1]
IdsOf(path) == {id \in Ids : OwnerPath(id) = path}

NoProc == 0
NoEntry == [present |-> FALSE, ts |-> 0, list |-> {}, expiresAt |-> 0]
NoRepl == [active |-> FALSE, old |-> {}, new |-> {}]
NoResp == [status |-> 0, type |-> "", content |-> 0]
Pending == [st |-> "pending", ids |-> {}]

\* this.browser = null; no entry of this.pages; no page held
NoBrowser == 0
NoPage == 0
NoPath == ""

\* page ids: a request creates at most one page per pass through getPage
PageIds == 1..(NumProcs * NumPaths)
ClosedPage == [st |-> "none", group |-> NoPath, browser |-> NoBrowser, url |-> NoPath,
               ready |-> FALSE]

\* response texts the remote UI may show, each stood for by its length (the
\* page appends to or truncates the text); 0 is the empty text
Texts == 0..MaxText

\* no .response element, no .copyres button, no loading indicator
NoDom == [has |-> FALSE, text |-> 0, copy |-> FALSE, loading |-> FALSE]

\* a CompletionResult not yet produced
NoAnswer == [content |-> <<>>, reasoning |-> <<>>]

\* no .response element read yet
NoElement == [answer |-> <<>>, label |-> "", where |-> ""]

\* no response formatted yet
NoSizes == [prompt |-> 0, content |-> 0, stream |-> FALSE]
NoUsage == [prompt_tokens |-> 0, completion_tokens |-> 0, total_tokens |-> 0]

\* a page without .response element
NoView == [has |-> FALSE, text |-> <<>>, copy |-> FALSE]

\* no streaming handler running
NoHandler == [lastContent |-> <<>>, isComplete |-> FALSE, noChangeCount |-> 0,
              interval |-> FALSE, timer |-> FALSE, inflight |-> 0]

\* temperature absent from the request body (-1 stands for undefined)
Undefined == 0 - 1

\* a page without #temperature input
NoControl == [present |-> FALSE, min |-> 0, max |-> 0, value |-> 0]

\* const maxNoChangeCount = 10
maxNoChangeCount == 10

\* let lastContent = ''; let noChangeCount = 0; let isComplete = false;
\* (elapsed counts poll intervals); timedOut, signal, sawCopy, seenText,
\* prevText, idleRun and cancelled are history
NoWatch == [elapsed |-> 0, lastContent |-> 0, noChangeCount |-> 0,
            isComplete |-> FALSE,
            timedOut |-> FALSE, signal |-> FALSE, sawCopy |-> FALSE,
            seenText |-> 0, prevText |-> 0, idleRun |-> 0,
            cancelled |-> FALSE]

VARIABLES
  impl,       \* which implementation runs
  now,        \* Date.now(), in days
  models,     \* the models table: set of rows [id, group]
  cache,      \* the freshness entry of the cache table
  dbLock,     \* the process whose db.serialize block is executing
  repl,       \* history: the replace in progress (old and new id sets)
  op,         \* per process: the request being served
  pc,         \* per process: position in its handler
  req,        \* per process: requested model id
  fetched,    \* per process: per-path fetch results of its refresh
  todo,       \* per process: rows still to insert
  t0,         \* per process: the captured Date.now()
  rout,       \* per process: how its refresh call ended
  nref,       \* per process: refreshes started by the current request
  cread,      \* history: what the request's read of the freshness entry found
  resp,       \* per process: the HTTP response
  browser,    \* BrowserManager.browser (0: null)
  nlaunch,    \* history: browsers launched so far
  pages,      \* BrowserManager.pages: path -> page (0: no entry)
  live,       \* the pages created so far and not closed
  page,       \* per process: the page its request holds (0: none)
  modelPath,  \* per process: the path its request resolved to
  dom,        \* per process: the DOM of the page its watcher polls
  watch,      \* per process: the locals of its watcher
  out,        \* per process: what was written to the response stream, in order
  answer,     \* per process: the CompletionResult {content, reasoning}
  temperature, \* per process: the temperature of the request
  control,    \* per process: the #temperature input of the page it drives
  messages,   \* per process: req.body.messages ("missing", "empty" or "ok")
  trail,      \* history: the UI actions of the request, in order
  detail,     \* per process: the error payload carries error.message of a caught exception
  listed,     \* per process: the ids of the list its getModels call returned
  element,    \* per process: the .response element its extraction reads
  closer,     \* the position of the call of BrowserManager.close
  closed,     \* history: the launched browsers that have been closed
  sizes,      \* per process: the sizes of the serialized prompt and of the content
  usage,      \* per process: the usage object of its response
  sdom,       \* per process: the page its streaming handler reads
  cb,         \* per process: the locals and timers of its streaming handler
  opened      \* per process: the discovery page of each path (none, open, closed)

catVars == <<impl, now, models, cache, dbLock, repl, op, pc, req, fetched,
             todo, t0, rout, nref, cread, resp>>

\* catVars without op, pc and resp
catRest == <<impl, now, models, cache, dbLock, repl, req, fetched, todo,
             t0, rout, nref, cread>>

poolVars == <<browser, nlaunch, pages, live, page, modelPath>>

watchVars == <<dom, watch>>

encVars == <<out, answer>>

tempVars == <<temperature, control>>

autoVars == <<messages, trail, detail, listed>>

stripVars == <<element>>

lifeVars == <<closer, closed>>

useVars == <<sizes, usage>>

streamVars == <<sdom, cb>>

leakVars == <<opened>>

extVars == <<stripVars, lifeVars, useVars, streamVars, leakVars>>

vars == <<catVars, poolVars, watchVars, encVars, tempVars, autoVars, extVars>>

(* ------------------------------- helpers ------------------------------ *)
\* models.push({id, group: path.toLowerCase()}); app.js also keeps path: pathName
Row(id) == [id |-> id, group |-> Lower(OwnerPath(id)),
            path |-> IF impl = "app" THEN OwnerPath(id) ELSE NoPath]
RowsOf(ids) == {Row(i) : i \in ids}
IdSet(rows) == {r.id : r \in rows}

RECURSIVE SeqOfSet(_)
SeqOfSet(S) ==
  IF S = {} THEN <<>>
  ELSE LET x == CHOOSE y \in S : \A z \in S : y <= z
       IN <<x>> \o SeqOfSet(S \ {x})

\* a join that discards every result as soon as one path failed
FlatAllOrNothing(f) ==
  IF \E path \in MODEL_PATHS : f[path].st = "fail"
  THEN {}
  ELSE UNION {f[path].ids : path \in MODEL_PATHS}

\* results.flat()
Flat(f) == UNION {f[path].ids : path \in MODEL_PATHS}

\* await Promise.all(...): every promise has settled
AllFetched(f) == \A path \in MODEL_PATHS : f[path].st \in {"ok", "fail"}

\* a lookup that still returns the entry at the instant it expires
getCacheInclusive(entry, t) == entry.present /\ entry.expiresAt >= t

\* a time to live of twice the configured days
TTLDoubled == 2 * MODEL_CACHE_DAYS

\* MODEL_CACHE_DAYS * 24 * 60 * 60 * 1000, in days
TTL == MODEL_CACHE_DAYS

\* a validity check that trusts any entry it finds
isModelsCacheValidStale(entry, t) == entry.present

\* SELECT value FROM cache WHERE key = ? AND expires_at > ?
getCache(entry, t) == entry.present /\ entry.expiresAt > t

\* Database.isModelsCacheValid: getCache, then now < timestamp + TTL
isModelsCacheValid(entry, t) == getCache(entry, t) /\ t < entry.ts + TTL

\* the cache check of each implementation's getModels
CacheValid(entry, t) ==
  IF impl = "modular" THEN isModelsCacheValid(entry, t) ELSE getCache(entry, t)

\* INSERT INTO models: a row whose primary key exists is rejected
Insert(tbl, row) == IF row.id \in IdSet(tbl) THEN tbl ELSE tbl \cup {row}

\* INSERT OR REPLACE INTO models, for every option of one path
Upsert(tbl, ids) == {r \in tbl : r.id \notin ids} \cup RowsOf(ids)

\* a refresh that stores whatever it fetched, an empty list included
ShouldSaveAlways(union) == TRUE

\* if (models.length > 0) / if (allModels.length === 0) throw
ShouldSave(union) == union # {}

FreshFetch == [path \in MODEL_PATHS |-> Pending]

\* no discovery page opened
NoPages == [path \in MODEL_PATHS |-> "none"]

(* -------------------------------- Init -------------------------------- *)
Init ==
  /\ impl \in Impls
  /\ now = 0
  /\ models = {}
  /\ cache = NoEntry
  /\ dbLock = NoProc
  /\ repl = NoRepl
  /\ op = [p \in Procs |-> "none"]
  /\ pc = [p \in Procs |-> "idle"]
  /\ req = [p \in Procs |-> 0]
  /\ fetched = [p \in Procs |-> FreshFetch]
  /\ todo = [p \in Procs |-> <<>>]
  /\ t0 = [p \in Procs |-> 0]
  /\ rout = [p \in Procs |-> "none"]
  /\ nref = [p \in Procs |-> 0]
  /\ cread = [p \in Procs |-> "none"]
  /\ resp = [p \in Procs |-> NoResp]
  /\ browser = NoBrowser
  /\ nlaunch = 0
  /\ pages = [path \in MODEL_PATHS |-> NoPage]
  /\ live = [i \in PageIds |-> ClosedPage]
  /\ page = [p \in Procs |-> NoPage]
  /\ modelPath = [p \in Procs |-> NoPath]
  /\ dom = [p \in Procs |-> NoDom]
  /\ watch = [p \in Procs |-> NoWatch]
  /\ out = [p \in Procs |-> <<>>]
  /\ answer = [p \in Procs |-> NoAnswer]
  /\ temperature = [p \in Procs |-> Undefined]
  /\ control = [p \in Procs |-> NoControl]
  /\ messages = [p \in Procs |-> "none"]
  /\ trail = [p \in Procs |-> <<>>]
  /\ detail = [p \in Procs |-> FALSE]
  /\ listed = [p \in Procs |-> {}]
  /\ element = [p \in Procs |-> NoElement]
  /\ closer = "idle"
  /\ closed = {}
  /\ sizes = [p \in Procs |-> NoSizes]
  /\ usage = [p \in Procs |-> NoUsage]
  /\ sdom = [p \in Procs |-> NoView]
  /\ cb = [p \in Procs |-> NoHandler]
  /\ opened = [p \in Procs |-> NoPages]

(* ----------------- catalog store, refresher, resolution ---------------- *)

\* res.json / res.status(..).json: the response is written
Reply(p, status, type) ==
  /\ resp' = [resp EXCEPT ![p] = [status |-> status, type |-> type, content |-> 0]]
  /\ pc' = [pc EXCEPT ![p] = "done"]

\* res.json(response): a chat.completion whose message.content is text
ReplyContent(p, text) ==
  /\ resp' = [resp EXCEPT ![p] =
        [status |-> 200, type |-> "chat.completion", content |-> text]]
  /\ pc' = [pc EXCEPT ![p] = "done"]

\* the record the lookup of p's model returns: a row of the models table, or
\* the entry of the list getModels returned (server.js)
Stored(p) ==
  IF impl = "server" THEN Row(req[p]) ELSE CHOOSE r \in models : r.id = req[p]

\* the path segment of the URL the request navigates to: modelInfo.path
\* (app.js), MODEL_PATHS.find(p => p.toLowerCase() === modelInfo.group)
\* (server.js), the group itself (sendToBrowser)
Target(row) ==
  IF impl = "app" THEN row.path
  ELSE IF impl = "server"
  THEN CHOOSE path \in MODEL_PATHS : Lower(path) = row.group
  ELSE row.group

\* the lookup found the model: the path of its page is passed to the automation
Navigates(p) ==
  modelPath' = [modelPath EXCEPT ![p] =
                  IF pc'[p] = "auto" THEN Target(Stored(p)) ELSE @]

\* the model resolved to a group: the messages are formatted and the request
\* goes on to browser automation; ChatHandler.formatMessages throws on a missing
\* list (messages.map of undefined), answered by errorHandler
Resolved(p) ==
  IF impl = "modular" /\ messages[p] = "missing"
  THEN Reply(p, 500, "error")
  ELSE /\ pc' = [pc EXCEPT ![p] = "auto"]
       /\ UNCHANGED resp

\* the refresh starts: one fetch per configured path
StartRefresh(p) ==
  /\ pc' = [pc EXCEPT ![p] = "fetch"]
  /\ nref' = [nref EXCEPT ![p] = @ + 1]
  /\ fetched' = [fetched EXCEPT ![p] = FreshFetch]
  /\ UNCHANGED resp

\* getModels / getModelsList / fetchAllModels returns (ok, ids) to its caller
Returned(p, ok, ids) ==
  /\ listed' = [listed EXCEPT ![p] = IF ok THEN ids ELSE @]
  /\ IF op[p] = "list"
     THEN IF ok THEN Reply(p, 200, "list")
                ELSE Reply(p, 500, "internal_server_error")
     ELSE IF impl = "server"
     THEN IF req[p] \in ids THEN Resolved(p) ELSE Reply(p, 400, "")
     ELSE IF ok
     THEN /\ pc' = [pc EXCEPT ![p] = "c_refind"]
          /\ UNCHANGED resp
     ELSE Reply(p, 400, "invalid_request_error")

\* GET /v1/models
StartList(p) ==
  /\ pc[p] = "idle"
  /\ op' = [op EXCEPT ![p] = "list"]
  /\ pc' = [pc EXCEPT ![p] = "l_check"]
  /\ UNCHANGED <<extVars, impl, now, models, cache, dbLock, repl, req, fetched, todo,
                 t0, rout, nref, resp, cread>>
  /\ UNCHANGED <<poolVars, watchVars, encVars, tempVars, autoVars>>

\* POST /v1/chat/completions with a model id and a non-empty message list
StartChat(p, m) ==
  /\ pc[p] = "idle"
  /\ op' = [op EXCEPT ![p] = "chat"]
  /\ req' = [req EXCEPT ![p] = m]
  /\ pc' = [pc EXCEPT ![p] = IF impl = "server" THEN "l_check" ELSE "c_find"]
  /\ messages' = [messages EXCEPT ![p] = "ok"]
  /\ UNCHANGED <<extVars, impl, now, models, cache, dbLock, repl, fetched, todo, t0,
                 rout, nref, resp, cread>>
  /\ UNCHANGED <<poolVars, watchVars, encVars, tempVars, trail, detail, listed>>

\* the bodies that validation is to reject: messages missing or an empty list,
\* or model missing (m = 0)
InvalidBodies ==
  {b \in [messages : {"missing", "empty", "ok"}, model : Ids \cup {0}] :
     b.messages # "ok" \/ b.model = 0}

\* POST /v1/chat/completions with such a body: the checks made before the
\* catalog lookup
StartInvalid(p, b) ==
  /\ pc[p] = "idle"
  /\ op' = [op EXCEPT ![p] = "chat"]
  /\ req' = [req EXCEPT ![p] = b.model]
  /\ messages' = [messages EXCEPT ![p] = b.messages]
  /\ IF impl = "app"
     THEN Reply(p, 400, "invalid_request_error")
     ELSE IF impl = "server"
     THEN IF b.messages = "missing" \/ b.model = 0
          THEN Reply(p, 400, "")
          ELSE /\ pc' = [pc EXCEPT ![p] = "l_check"]
               /\ UNCHANGED resp
     ELSE /\ pc' = [pc EXCEPT ![p] = "c_find"]
          /\ UNCHANGED resp
  /\ UNCHANGED <<extVars, impl, now, models, cache, dbLock, repl, fetched, todo, t0,
                 rout, nref, cread>>
  /\ UNCHANGED <<poolVars, watchVars, encVars, tempVars, trail, detail, listed>>

\* getModels / getModelsList: the read of the freshness entry
CheckCache(p) ==
  /\ pc[p] = "l_check"
  /\ t0' = [t0 EXCEPT ![p] = IF impl = "server" THEN now ELSE @]
  /\ cread' = [cread EXCEPT ![p] =
        IF CacheValid(cache, now) THEN "hit"
        ELSE IF cache.present THEN "expired" ELSE "absent"]
  /\ IF CacheValid(cache, now)
     THEN /\ IF impl = "server"
             THEN Returned(p, TRUE, IdSet(cache.list))
             ELSE /\ pc' = [pc EXCEPT ![p] = "l_rows"]
                  /\ UNCHANGED <<resp, listed>>
          /\ UNCHANGED <<nref, fetched>>
     ELSE /\ StartRefresh(p)
          /\ UNCHANGED listed
  /\ Navigates(p)
  /\ UNCHANGED <<extVars, impl, now, models, cache, dbLock, repl, op, req, todo, rout>>
  /\ UNCHANGED <<browser, nlaunch, pages, live, page>>
  /\ UNCHANGED <<watchVars, encVars, tempVars, messages, trail, detail>>

\* SELECT * FROM models after a valid freshness entry ("app", "modular")
ReadRows(p) ==
  /\ pc[p] = "l_rows"
  /\ IF impl = "modular" /\ models = {}
     THEN /\ StartRefresh(p)
          /\ UNCHANGED listed
     ELSE /\ Returned(p, TRUE, IdSet(models))
          /\ UNCHANGED <<nref, fetched>>
  /\ UNCHANGED <<extVars, impl, now, models, cache, dbLock, repl, op, req, todo, t0, rout, cread>>
  /\ UNCHANGED <<poolVars, watchVars, encVars, tempVars, messages, trail, detail>>

\* one path's fetch settles: it threw (caught, []) or it listed some models
FetchPath(p, path) ==
  /\ pc[p] = "fetch"
  /\ fetched[p][path].st = "pending"
  /\ \E res \in {[st |-> "fail", ids |-> {}]} \cup
               {[st |-> "ok", ids |-> s] : s \in SUBSET IdsOf(path)} :
       /\ fetched' = [fetched EXCEPT ![p][path] = res]
       /\ models' = IF impl = "server" THEN Upsert(models, res.ids) ELSE models
  /\ UNCHANGED <<extVars, impl, now, cache, dbLock, repl, op, pc, req, todo, t0, rout,
                 nref, resp, cread>>
  /\ UNCHANGED <<poolVars, watchVars, encVars, tempVars, autoVars>>

\* Promise.all resolved: results.flat(), then the decision to store
Join(p) ==
  /\ pc[p] = "fetch"
  /\ AllFetched(fetched[p])
  /\ LET union == Flat(fetched[p]) IN
     IF impl = "server"
     THEN /\ cache' = IF ShouldSave(union)
                      THEN [present |-> TRUE, ts |-> t0[p], list |-> RowsOf(union),
                            expiresAt |-> t0[p] + TTL]
                      ELSE cache
          /\ rout' = [rout EXCEPT ![p] = "ok"]
          /\ Returned(p, TRUE, union)
          /\ UNCHANGED <<todo, t0>>
     ELSE IF ShouldSave(union)
     THEN /\ todo' = [todo EXCEPT ![p] = SeqOfSet(union)]
          /\ t0' = [t0 EXCEPT ![p] = now]
          /\ pc' = [pc EXCEPT ![p] = "del"]
          /\ UNCHANGED <<cache, rout, resp, listed>>
     ELSE /\ rout' = [rout EXCEPT ![p] = IF impl = "app" THEN "throw" ELSE "ok"]
          /\ Returned(p, impl # "app", union)
          /\ UNCHANGED <<cache, todo, t0>>
  /\ Navigates(p)
  /\ UNCHANGED <<extVars, impl, now, models, dbLock, repl, op, req, fetched, nref, cread>>
  /\ UNCHANGED <<browser, nlaunch, pages, live, page>>
  /\ UNCHANGED <<watchVars, encVars, tempVars, messages, trail, detail>>

\* DELETE FROM models, first statement of the db.serialize block
DeleteModels(p) ==
  /\ pc[p] = "del"
  /\ dbLock = NoProc
  /\ models' = {}
  /\ IF todo[p] = <<>>
     THEN /\ pc' = [pc EXCEPT ![p] = "setc"]
          /\ UNCHANGED <<dbLock, repl>>
     ELSE /\ pc' = [pc EXCEPT ![p] = "ins"]
          /\ dbLock' = p
          /\ repl' = [active |-> TRUE, old |-> IdSet(models),
                      new |-> {todo[p][i] : i \in 1..Len(todo[p])}]
  /\ UNCHANGED <<extVars, impl, now, cache, op, req, fetched, todo, t0, rout, nref, resp, cread>>
  /\ UNCHANGED <<poolVars, watchVars, encVars, tempVars, autoVars>>

\* stmt.run(model.id, model.group, ...): one INSERT; after the last, finalize
InsertRow(p) ==
  /\ pc[p] = "ins"
  /\ models' = Insert(models, Row(Head(todo[p])))
  /\ todo' = [todo EXCEPT ![p] = Tail(@)]
  /\ IF Len(todo[p]) = 1
     THEN /\ pc' = [pc EXCEPT ![p] = "setc"]
          /\ dbLock' = NoProc
          /\ repl' = NoRepl
     ELSE UNCHANGED <<pc, dbLock, repl>>
  /\ UNCHANGED <<extVars, impl, now, cache, op, req, fetched, t0, rout, nref, resp, cread>>
  /\ UNCHANGED <<poolVars, watchVars, encVars, tempVars, autoVars>>

\* setCache('models_updated', ...) / INSERT OR REPLACE INTO cache_metadata
SetCache(p) ==
  /\ pc[p] = "setc"
  /\ cache' = [present |-> TRUE, ts |-> t0[p], list |-> {},
               expiresAt |-> t0[p] + TTL]
  /\ rout' = [rout EXCEPT ![p] = "ok"]
  /\ Returned(p, TRUE, Flat(fetched[p]))
  /\ UNCHANGED <<extVars, impl, now, models, dbLock, repl, op, req, fetched, todo, t0, nref, cread>>
  /\ UNCHANGED <<poolVars, watchVars, encVars, tempVars, messages, trail, detail>>

\* findModelGroup / findModelById: the first lookup of a chat request
FindModel(p) ==
  /\ pc[p] = "c_find"
  /\ IF req[p] \in IdSet(models)
     THEN /\ Resolved(p)
          /\ UNCHANGED <<nref, fetched>>
     ELSE StartRefresh(p)
  /\ Navigates(p)
  /\ UNCHANGED <<extVars, impl, now, models, cache, dbLock, repl, op, req, todo, t0, rout, cread>>
  /\ UNCHANGED <<browser, nlaunch, pages, live, page>>
  /\ UNCHANGED <<watchVars, encVars, tempVars, autoVars>>

\* the lookup after the refresh; a miss ends the request
RefindModel(p) ==
  /\ pc[p] = "c_refind"
  /\ IF req[p] \in IdSet(models)
     THEN Resolved(p)
     ELSE IF impl = "modular"
     THEN Reply(p, 500, "error")
     ELSE Reply(p, 400, "invalid_request_error")
  /\ Navigates(p)
  /\ UNCHANGED <<extVars, impl, now, models, cache, dbLock, repl, op, req, fetched, todo,
                 t0, rout, nref, cread>>
  /\ UNCHANGED <<browser, nlaunch, pages, live, page>>
  /\ UNCHANGED <<watchVars, encVars, tempVars, autoVars>>

\* the request is over; the process is free for the next one
Finish(p) ==
  /\ pc[p] \in {"done", "auto"}
  /\ op' = [op EXCEPT ![p] = "none"]
  /\ pc' = [pc EXCEPT ![p] = "idle"]
  /\ req' = [req EXCEPT ![p] = 0]
  /\ fetched' = [fetched EXCEPT ![p] = FreshFetch]
  /\ todo' = [todo EXCEPT ![p] = <<>>]
  /\ t0' = [t0 EXCEPT ![p] = 0]
  /\ rout' = [rout EXCEPT ![p] = "none"]
  /\ nref' = [nref EXCEPT ![p] = 0]
  /\ cread' = [cread EXCEPT ![p] = "none"]
  /\ resp' = [resp EXCEPT ![p] = NoResp]
  /\ page' = [page EXCEPT ![p] = NoPage]
  /\ modelPath' = [modelPath EXCEPT ![p] = NoPath]
  /\ dom' = [dom EXCEPT ![p] = NoDom]
  /\ watch' = [watch EXCEPT ![p] = NoWatch]
  /\ out' = [out EXCEPT ![p] = <<>>]
  /\ answer' = [answer EXCEPT ![p] = NoAnswer]
  /\ temperature' = [temperature EXCEPT ![p] = Undefined]
  /\ control' = [control EXCEPT ![p] = NoControl]
  /\ messages' = [messages EXCEPT ![p] = "none"]
  /\ trail' = [trail EXCEPT ![p] = <<>>]
  /\ detail' = [detail EXCEPT ![p] = FALSE]
  /\ listed' = [listed EXCEPT ![p] = {}]
  /\ element' = [element EXCEPT ![p] = NoElement]
  /\ sizes' = [sizes EXCEPT ![p] = NoSizes]
  /\ usage' = [usage EXCEPT ![p] = NoUsage]
  /\ sdom' = [sdom EXCEPT ![p] = NoView]
  /\ cb' = [cb EXCEPT ![p] = NoHandler]
  /\ opened' = [opened EXCEPT ![p] = NoPages]
  /\ UNCHANGED lifeVars
  /\ UNCHANGED <<impl, now, models, cache, dbLock, repl, browser, nlaunch, pages, live>>

\* a day passes
Tick ==
  /\ now < MaxTime
  /\ now' = now + 1
  /\ UNCHANGED <<extVars, impl, models, cache, dbLock, repl, op, pc, req, fetched, todo,
                 t0, rout, nref, resp, cread>>
  /\ UNCHANGED <<poolVars, watchVars, encVars, tempVars, autoVars>>

\* one step of the handler that process p runs
Step(p) ==
  \/ StartList(p)
  \/ \E m \in Ids : StartChat(p, m)
  \/ CheckCache(p)
  \/ ReadRows(p)
  \/ \E path \in MODEL_PATHS : FetchPath(p, path)
  \/ Join(p)
  \/ DeleteModels(p)
  \/ InsertRow(p)
  \/ SetCache(p)
  \/ FindModel(p)
  \/ RefindModel(p)
  \/ Finish(p)

\* concurrent requests: any process may take the next step
Next == (\E p \in Procs : Step(p)) \/ Tick

Spec == Init /\ [][Next]_vars

\* one request at a time
NextSeq == Step(1) \/ Tick

SpecSeq == Init /\ [][NextSeq]_vars

\* one request at a time, well-formed or not
NextVal == Step(1) \/ (\E b \in InvalidBodies : StartInvalid(1, b)) \/ Tick

SpecVal == Init /\ [][NextVal]_vars

\* the remote site takes the request of one path and never answers it
Silent(p, path) ==
  /\ pc[p] = "fetch"
  /\ fetched[p][path].st = "pending"
  /\ fetched' = [fetched EXCEPT ![p][path].st = "silent"]
  /\ UNCHANGED <<extVars, impl, now, models, cache, dbLock, repl, op, pc, req, todo,
                 t0, rout, nref, resp, cread>>
  /\ UNCHANGED <<poolVars, watchVars, encVars, tempVars, autoVars>>

\* the fetch of a silent path is given up: axios.get with timeout: 30000
\* (app.js), page.goto with timeout: 30000 (server.js); the axios.get of
\* fetchModelsFromPage has no timeout
TimeoutPath(p, path) ==
  /\ impl \in {"app", "server"}
  /\ pc[p] = "fetch"
  /\ fetched[p][path].st = "silent"
  /\ fetched' = [fetched EXCEPT ![p][path].st = "fail"]
  /\ UNCHANGED <<extVars, impl, now, models, cache, dbLock, repl, op, pc, req, todo,
                 t0, rout, nref, resp, cread>>
  /\ UNCHANGED <<poolVars, watchVars, encVars, tempVars, autoVars>>

\* the steps of a request that take place by themselves once it has arrived:
\* statements of the handler, answers and errors of the remote site, timers
Proceeds(p) ==
  \/ CheckCache(p)
  \/ ReadRows(p)
  \/ \E path \in MODEL_PATHS : FetchPath(p, path)
  \/ \E path \in MODEL_PATHS : TimeoutPath(p, path)
  \/ Join(p)
  \/ DeleteModels(p)
  \/ InsertRow(p)
  \/ SetCache(p)
  \/ FindModel(p)
  \/ RefindModel(p)

\* one request at a time, against a remote site that may leave a path unanswered
NextFan ==
  \/ Step(1)
  \/ \E path \in MODEL_PATHS : Silent(1, path)
  \/ \E path \in MODEL_PATHS : TimeoutPath(1, path)
  \/ Tick

SpecFan == Init /\ [][NextFan]_vars /\ WF_vars(Proceeds(1))

(* ------------------- discovery pages (discoverModels) ------------------ *)

\* discoverModels: const page = await browser.newPage() for one path
NewDiscoveryPage(p, path) ==
  /\ impl = "server"
  /\ pc[p] = "fetch"
  /\ fetched[p][path].st = "pending"
  /\ opened[p][path] = "none"
  /\ opened' = [opened EXCEPT ![p][path] = "open"]
  /\ UNCHANGED <<stripVars, lifeVars, useVars, streamVars, catVars, poolVars,
                 watchVars, encVars, tempVars, autoVars>>

\* discoverModels: goto, waitForSelector and evaluate succeeded; page.close(),
\* then the rows are stored and the options returned
Discovered(p, path) ==
  /\ impl = "server"
  /\ pc[p] = "fetch"
  /\ fetched[p][path].st = "pending"
  /\ opened[p][path] = "open"
  /\ opened' = [opened EXCEPT ![p][path] = "closed"]
  /\ \E s \in SUBSET IdsOf(path) :
       /\ fetched' = [fetched EXCEPT ![p][path] = [st |-> "ok", ids |-> s]]
       /\ models' = Upsert(models, s)
  /\ UNCHANGED <<stripVars, lifeVars, useVars, streamVars, impl, now, cache, dbLock,
                 repl, op, pc, req, todo, t0, rout, nref, resp, cread>>
  /\ UNCHANGED <<poolVars, watchVars, encVars, tempVars, autoVars>>

\* discoverModels: newPage, setUserAgent, goto (timeout: 30000) or evaluate
\* throws; catch (error) { console.error(...); return [] }
DiscoveryThrows(p, path) ==
  /\ impl = "server"
  /\ pc[p] = "fetch"
  /\ fetched[p][path].st = "pending"
  /\ fetched' = [fetched EXCEPT ![p][path] = [st |-> "fail", ids |-> {}]]
  /\ UNCHANGED <<extVars, impl, now, models, cache, dbLock, repl, op, pc, req, todo,
                 t0, rout, nref, resp, cread>>
  /\ UNCHANGED <<poolVars, watchVars, encVars, tempVars, autoVars>>

(* ---------------------- session pool (BrowserManager) ------------------ *)

\* the pages created and not closed
Open == {i \in PageIds : live[i].st = "open"}
OpenFor(path) == {i \in Open : live[i].group = path}

\* handleChatCompletion: the model resolved to a path; getPage(modelPath) is called
GetPage(p, path) ==
  /\ impl = "server"
  /\ pc[p] = "idle"
  /\ op' = [op EXCEPT ![p] = "chat"]
  /\ modelPath' = [modelPath EXCEPT ![p] = path]
  /\ pc' = [pc EXCEPT ![p] = "g_init"]
  /\ UNCHANGED <<extVars, catRest, resp, browser, nlaunch, pages, live, page, watchVars, encVars, tempVars, autoVars>>

\* BrowserManager.init: if (!this.browser) the launch is awaited
InitBrowser(p) ==
  /\ pc[p] = "g_init"
  /\ pc' = [pc EXCEPT ![p] = IF browser = NoBrowser THEN "g_launch" ELSE "g_has"]
  /\ UNCHANGED <<extVars, catRest, op, resp, poolVars, watchVars, encVars, tempVars, autoVars>>

\* puppeteer.launch resolves: this.browser = the new browser
Launched(p) ==
  /\ pc[p] = "g_launch"
  /\ nlaunch' = nlaunch + 1
  /\ browser' = nlaunch + 1
  /\ pc' = [pc EXCEPT ![p] = "g_has"]
  /\ UNCHANGED <<extVars, catRest, op, resp, pages, live, page, modelPath, watchVars, encVars, tempVars, autoVars>>

\* if (!this.pages.has(modelPath)) newPage is awaited; else return this.pages.get(modelPath)
HasPage(p) ==
  /\ pc[p] = "g_has"
  /\ IF pages[modelPath[p]] = NoPage
     THEN /\ pc' = [pc EXCEPT ![p] = "g_new"]
          /\ UNCHANGED page
     ELSE /\ page' = [page EXCEPT ![p] = pages[modelPath[p]]]
          /\ pc' = [pc EXCEPT ![p] = "ui_nav"]
  /\ UNCHANGED <<extVars, catRest, op, resp, browser, nlaunch, pages, live, modelPath, watchVars, encVars, tempVars, autoVars>>

\* this.browser.newPage() resolves; setUserAgent and setExtraHTTPHeaders are awaited
NewPage(p) ==
  /\ pc[p] = "g_new"
  /\ browser # NoBrowser /\ browser \notin closed
  /\ LET i == CHOOSE j \in PageIds \ Open : \A k \in PageIds \ Open : j <= k IN
       /\ live' = [live EXCEPT ![i] = [st |-> "open", group |-> modelPath[p],
                                       browser |-> browser, url |-> NoPath,
                                       ready |-> FALSE]]
       /\ page' = [page EXCEPT ![p] = i]
  /\ pc' = [pc EXCEPT ![p] = "g_set"]
  /\ UNCHANGED <<extVars, catRest, op, resp, browser, nlaunch, pages, modelPath, watchVars, encVars, tempVars, autoVars>>

\* this.pages.set(modelPath, page); return this.pages.get(modelPath)
SetPage(p) ==
  /\ pc[p] = "g_set"
  /\ live[page[p]].st = "open"
  /\ pages' = [pages EXCEPT ![modelPath[p]] = page[p]]
  /\ pc' = [pc EXCEPT ![p] = "ui_nav"]
  /\ UNCHANGED <<extVars, catRest, op, resp, browser, nlaunch, live, page, modelPath, watchVars, encVars, tempVars, autoVars>>

\* for (let i = 0; i < 3; i++) page.click('#send-button')
MaxClicks == 3

\* finally { page.close() } of sendToBrowser and simulateBrowserInteraction;
\* the pages of BrowserManager stay open
Released(l, p) ==
  IF impl = "server" THEN l ELSE [l EXCEPT ![page[p]] = ClosedPage]

\* an exception of the automation reaches the catch of the handler (server.js,
\* app.js) or errorHandler (modular): a 500 whose body carries error.message
AutomationError(p) ==
  /\ Reply(p, 500, IF impl = "server" THEN ""
                   ELSE IF impl = "app" THEN "internal_server_error"
                   ELSE "error")
  /\ detail' = [detail EXCEPT ![p] = TRUE]

\* app.js / sendToBrowser: the model resolved to a path; browser.newPage()
OpenPage(p, path) ==
  /\ impl \in {"app", "modular"}
  /\ pc[p] = "idle"
  /\ op' = [op EXCEPT ![p] = "chat"]
  /\ modelPath' = [modelPath EXCEPT ![p] = path]
  /\ LET i == CHOOSE j \in PageIds \ Open : \A k \in PageIds \ Open : j <= k IN
       /\ live' = [live EXCEPT ![i] = [st |-> "open", group |-> path,
                                       browser |-> NoBrowser, url |-> NoPath,
                                       ready |-> FALSE]]
       /\ page' = [page EXCEPT ![p] = i]
  /\ pc' = [pc EXCEPT ![p] = "ui_nav"]
  /\ UNCHANGED <<extVars, catRest, resp, browser, nlaunch, pages, watchVars, encVars, tempVars, autoVars>>

\* server.js: if (!currentUrl.includes(modelPath)) page.goto(expectedUrl) and the
\* three waitForSelector; app.js: goto, waitForSelector of #select_model and
\* #message; sendToBrowser: goto alone, whatever the page then shows
Navigate(p) ==
  /\ pc[p] = "ui_nav"
  /\ live[page[p]].st = "open"
  /\ IF impl = "server" /\ live[page[p]].url = modelPath[p]
     THEN UNCHANGED live
     ELSE \E r \in (IF impl = "modular" THEN BOOLEAN ELSE {TRUE}) :
            live' = [live EXCEPT ![page[p]].url = modelPath[p],
                                 ![page[p]].ready = r]
  /\ trail' = [trail EXCEPT ![p] = Append(@, "nav")]
  /\ pc' = [pc EXCEPT ![p] = "ui_select"]
  /\ UNCHANGED <<extVars, catRest, op, resp, browser, nlaunch, pages, page, modelPath,
                 watchVars, encVars, tempVars, messages, detail, listed>>

\* page.goto throws (the page stays off the group's page), or a waitForSelector
\* times out on the loaded page
FailNavigate(p) ==
  /\ pc[p] = "ui_nav"
  /\ ~(impl = "server" /\ live[page[p]].url = modelPath[p])
  /\ \E at \in (IF impl = "modular" THEN {NoPath} ELSE {NoPath, modelPath[p]}) :
       live' = Released([live EXCEPT ![page[p]].url = at,
                                     ![page[p]].ready = FALSE], p)
  /\ trail' = [trail EXCEPT ![p] = Append(@, "nav")]
  /\ AutomationError(p)
  /\ UNCHANGED <<extVars, catRest, op, browser, nlaunch, pages, page, modelPath,
                 watchVars, encVars, tempVars, messages, listed>>

\* page.select('#select_model', model), which throws without that element;
\* then the temperature control
SelectModel(p) ==
  /\ pc[p] = "ui_select"
  /\ live[page[p]].st = "open"
  /\ IF live[page[p]].ready
     THEN /\ trail' = [trail EXCEPT ![p] = @ \o <<"select", "temp">>]
          /\ pc' = [pc EXCEPT ![p] = "ui_type"]
          /\ UNCHANGED <<resp, live, detail>>
     ELSE /\ trail' = [trail EXCEPT ![p] = Append(@, "select")]
          /\ live' = Released(live, p)
          /\ AutomationError(p)
  /\ UNCHANGED <<extVars, catRest, op, browser, nlaunch, pages, page, modelPath,
                 watchVars, encVars, tempVars, messages, listed>>

\* the textarea is cleared; page.type('#message', formattedMessages)
TypeMessage(p) ==
  /\ pc[p] = "ui_type"
  /\ live[page[p]].st = "open"
  /\ trail' = [trail EXCEPT ![p] = Append(@, "type")]
  /\ pc' = [pc EXCEPT ![p] = "ui_send"]
  /\ UNCHANGED <<extVars, catRest, op, resp, poolVars, watchVars, encVars, tempVars,
                 messages, detail, listed>>

\* the click attempts of p that threw
FailedClicks(t) == Cardinality({i \in 1..Len(t) : t[i] = "click_failed"})

\* clickSuccess
ClickSuccess(t) == \E i \in 1..Len(t) : t[i] = "click"

\* a send step that presses Enter whatever the clicks did
FallbackAlways(clickSuccess) == TRUE

\* if (!clickSuccess) page.keyboard.press('Enter')
Fallback(clickSuccess) == ~clickSuccess

\* one page.click('#send-button'): it goes through or throws. server.js tries
\* up to MaxClicks times; app.js and sendToBrowser click once and let it throw
Send(p) ==
  /\ pc[p] = "ui_send"
  /\ live[page[p]].st = "open"
  /\ \E ok \in BOOLEAN :
       /\ trail' = [trail EXCEPT ![p] =
                      Append(@, IF ok THEN "click" ELSE "click_failed")]
       /\ IF impl = "server"
          THEN /\ pc' = [pc EXCEPT ![p] =
                    IF ok \/ FailedClicks(trail[p]) + 1 >= MaxClicks
                    THEN "ui_enter" ELSE "ui_send"]
               /\ UNCHANGED <<resp, live, detail>>
          ELSE IF ok
          THEN /\ pc' = [pc EXCEPT ![p] = "ui_poll"]
               /\ UNCHANGED <<resp, live, detail>>
          ELSE /\ live' = Released(live, p)
               /\ AutomationError(p)
  /\ UNCHANGED <<extVars, catRest, op, browser, nlaunch, pages, page, modelPath,
                 watchVars, encVars, tempVars, messages, listed>>

\* server.js, after the loop: the keyboard fallback
PressEnter(p) ==
  /\ pc[p] = "ui_enter"
  /\ live[page[p]].st = "open"
  /\ trail' = [trail EXCEPT ![p] =
        IF Fallback(ClickSuccess(trail[p])) THEN Append(@, "enter") ELSE @]
  /\ pc' = [pc EXCEPT ![p] = "ui_poll"]
  /\ UNCHANGED <<extVars, catRest, op, resp, poolVars, watchVars, encVars, tempVars,
                 messages, detail, listed>>

\* the watcher returns: the polling is over (and the page of app.js and
\* sendToBrowser is closed)
Observed(p) ==
  /\ pc[p] = "ui_poll"
  /\ live[page[p]].st = "open"
  /\ trail' = [trail EXCEPT ![p] = Append(@, "poll")]
  /\ \E text \in Texts :
       IF text > 0 THEN ReplyContent(p, text)
       ELSE Reply(p, 500, IF impl = "server" THEN ""
                          ELSE IF impl = "app" THEN "internal_server_error"
                          ELSE "error")
  /\ live' = Released(live, p)
  /\ UNCHANGED <<extVars, catRest, op, browser, nlaunch, pages, page, modelPath,
                 watchVars, encVars, tempVars, messages, detail, listed>>

PoolStep(p) ==
  \/ \E path \in MODEL_PATHS : GetPage(p, path)
  \/ InitBrowser(p)
  \/ Launched(p)
  \/ HasPage(p)
  \/ NewPage(p)
  \/ SetPage(p)
  \/ Navigate(p)
  \/ SelectModel(p)
  \/ TypeMessage(p)
  \/ Send(p)
  \/ PressEnter(p)
  \/ Observed(p)
  \/ Finish(p)

\* concurrent chat requests whose model already resolved
NextPool == \E p \in Procs : PoolStep(p)

SpecPool == Init /\ [][NextPool]_vars

\* BrowserManager.close: if (this.browser) await this.browser.close(); the
\* browser and every page of it are gone while the call is awaited
CloseBrowser ==
  /\ impl = "server"
  /\ closer = "idle"
  /\ browser # NoBrowser
  /\ Cardinality(closed) < MaxCloses
  /\ closer' = "closing"
  /\ closed' = closed \cup {browser}
  /\ live' = [i \in PageIds |->
                IF live[i].st = "open" /\ live[i].browser = browser
                THEN ClosedPage ELSE live[i]]
  /\ UNCHANGED <<leakVars, stripVars, useVars, streamVars, catVars, browser, nlaunch, pages, page, modelPath,
                 watchVars, encVars, tempVars, autoVars>>

\* BrowserManager.close after the await: this.browser = null; this.pages.clear()
Cleared ==
  /\ closer = "closing"
  /\ closer' = "idle"
  /\ browser' = NoBrowser
  /\ pages' = [path \in MODEL_PATHS |-> NoPage]
  /\ UNCHANGED <<leakVars, stripVars, closed, useVars, streamVars, catVars, nlaunch, live, page, modelPath,
                 watchVars, encVars, tempVars, autoVars>>

\* a puppeteer call on a closed browser or a closed page rejects; the handler's
\* catch answers 500
PageGone(p) ==
  /\ \/ pc[p] = "g_new" /\ (browser = NoBrowser \/ browser \in closed)
     \/ /\ pc[p] \in {"g_set", "ui_nav", "ui_select", "ui_type", "ui_send",
                       "ui_enter", "ui_poll"}
        /\ live[page[p]].st # "open"
  /\ AutomationError(p)
  /\ UNCHANGED <<extVars, catRest, op, poolVars, watchVars, encVars, tempVars,
                 messages, trail, listed>>

\* chat requests one after another while the browser may be closed
NextClose == PoolStep(1) \/ PageGone(1) \/ CloseBrowser \/ Cleared

SpecClose == Init /\ [][NextClose]_vars

AutoStep(p) ==
  \/ PoolStep(p)
  \/ \E path \in MODEL_PATHS : OpenPage(p, path)
  \/ FailNavigate(p)

\* the automation of one request after another, failures included
NextAuto == AutoStep(1)

SpecAuto == Init /\ [][NextAuto]_vars

\* app.js and fetchAllModels fetch a path with axios.get, without a page
FetchByRequest(p, path) ==
  /\ impl # "server"
  /\ FetchPath(p, path)

\* the operations that open a page of their own: the discovery of each path
\* (server.js; app.js and fetchAllModels use axios) and the automation of a
\* chat request (app.js, sendToBrowser)
LeakStep(p) ==
  \/ StartList(p)
  \/ CheckCache(p)
  \/ ReadRows(p)
  \/ \E path \in MODEL_PATHS : FetchByRequest(p, path)
  \/ \E path \in MODEL_PATHS : NewDiscoveryPage(p, path)
  \/ \E path \in MODEL_PATHS : Discovered(p, path)
  \/ \E path \in MODEL_PATHS : DiscoveryThrows(p, path)
  \/ Join(p)
  \/ DeleteModels(p)
  \/ InsertRow(p)
  \/ SetCache(p)
  \/ AutoStep(p)

\* one operation after another
NextLeak == LeakStep(1) \/ Tick

SpecLeak == Init /\ [][NextLeak]_vars

(* --------------------------- completion watcher ------------------------ *)

\* the remote UI: a page without .response element, or one whose latest
\* .response has any text, with or without copy button; a loading indicator or not
Doms == {d \in [has : BOOLEAN, text : Texts, copy : BOOLEAN, loading : BOOLEAN] :
           ~d.has => (d.text = 0 /\ ~d.copy)}

\* history of one poll made when the page shows d: the text it could read, and
\* whether a completion signal (the copy button, or maxNoChangeCount polls in a
\* row with the same non-empty text and no loading indicator) has shown by then
Seen(w, d) ==
  LET run == IF d.text > 0 /\ d.text = w.prevText /\ ~d.loading
             THEN w.idleRun + 1 ELSE 0
  IN [w EXCEPT !.seenText = IF d.text > 0 THEN d.text ELSE @,
               !.prevText = d.text,
               !.idleRun = run,
               !.sawCopy = @ \/ d.copy,
               !.signal = @ \/ d.copy \/ run >= maxNoChangeCount]

\* a clock that stands still while the loop sleeps
LaterNever(w) == {w}

\* the time one pass of a polling loop takes, in poll intervals: the sleep, and
\* possibly as much again for the page.evaluate calls
Later(w) == {[w EXCEPT !.elapsed = IF @ + dt > MaxWait THEN MaxWait ELSE @ + dt] :
               dt \in 1..2}

\* the message was sent: the watcher starts polling the page
StartWatch(p) ==
  /\ pc[p] = "idle"
  /\ op' = [op EXCEPT ![p] = "chat"]
  /\ pc' = [pc EXCEPT ![p] = "w_poll"]
  /\ UNCHANGED <<extVars, catRest, resp, poolVars, watchVars, encVars, tempVars, autoVars>>

\* the remote UI changes what the page shows
Site(p) ==
  /\ pc[p] \in {"w_poll", "s_poll"}
  /\ \E d \in Doms \ {dom[p]} : dom' = [dom EXCEPT ![p] = d]
  /\ UNCHANGED <<extVars, catVars, poolVars, watch, encVars, tempVars, autoVars>>

\* handleNonStreamingResponse: one pass of the while loop
PollNonStreaming(p) ==
  /\ impl = "server"
  /\ pc[p] = "w_poll"
  /\ watch[p].elapsed < MaxWait
  /\ LET d == dom[p]
         w == Seen(watch[p], d)
         responseContent == IF d.text > 0 /\ d.copy THEN d.text ELSE 0
     IN IF responseContent # 0 /\ responseContent = w.lastContent
        THEN IF w.noChangeCount + 1 >= maxNoChangeCount
             THEN /\ watch' = [watch EXCEPT ![p] =
                        [w EXCEPT !.noChangeCount = @ + 1]]
                  /\ ReplyContent(p, responseContent)
             ELSE /\ \E v \in Later([w EXCEPT !.noChangeCount = @ + 1]) :
                        watch' = [watch EXCEPT ![p] = v]
                  /\ UNCHANGED <<pc, resp>>
        ELSE /\ \E v \in Later(IF responseContent # 0
                               THEN [w EXCEPT !.lastContent = responseContent,
                                              !.noChangeCount = 0]
                               ELSE w) :
                   watch' = [watch EXCEPT ![p] = v]
             /\ UNCHANGED <<pc, resp>>
  /\ UNCHANGED <<extVars, catRest, op, poolVars, dom, encVars, tempVars, autoVars>>

\* handleNonStreamingResponse: the loop ended on maxWaitTime
TimeoutNonStreaming(p) ==
  /\ impl = "server"
  /\ pc[p] = "w_poll"
  /\ watch[p].elapsed >= MaxWait
  /\ watch' = [watch EXCEPT ![p].timedOut = TRUE]
  /\ IF watch[p].lastContent # 0
     THEN ReplyContent(p, watch[p].lastContent)
     ELSE Reply(p, 500, "")
  /\ UNCHANGED <<extVars, catRest, op, poolVars, dom, encVars, tempVars, autoVars>>

\* ChatHandler.waitForResponse: one pass of the while loop
PollWaitForResponse(p) ==
  /\ impl = "modular"
  /\ pc[p] = "w_poll"
  /\ watch[p].elapsed < MaxWait
  /\ LET d == dom[p]
         w == Seen(watch[p], d)
     IN IF d.copy
        THEN /\ watch' = [watch EXCEPT ![p] = w]
             /\ ReplyContent(p, d.text)
        ELSE /\ \E v \in Later(w) : watch' = [watch EXCEPT ![p] = v]
             /\ UNCHANGED <<pc, resp>>
  /\ UNCHANGED <<extVars, catRest, op, poolVars, dom, encVars, tempVars, autoVars>>

\* ChatHandler.waitForResponse: throw new Error('Response timeout'), answered
\* by errorHandler
TimeoutWaitForResponse(p) ==
  /\ impl = "modular"
  /\ pc[p] = "w_poll"
  /\ watch[p].elapsed >= MaxWait
  /\ watch' = [watch EXCEPT ![p].timedOut = TRUE]
  /\ Reply(p, 500, "error")
  /\ UNCHANGED <<extVars, catRest, op, poolVars, dom, encVars, tempVars, autoVars>>

\* simulateBrowserInteraction: one attempt of the while loop
PollSimulate(p) ==
  /\ impl = "app"
  /\ pc[p] = "w_poll"
  /\ watch[p].elapsed < MaxWait
  /\ LET d == dom[p]
         w == Seen(watch[p], d)
     IN IF d.text > 0 /\ (d.copy \/ ~d.loading)
        THEN /\ watch' = [watch EXCEPT ![p] = w]
             /\ ReplyContent(p, d.text)
        ELSE /\ watch' = [watch EXCEPT ![p] = [w EXCEPT !.elapsed = @ + 1]]
             /\ UNCHANGED <<pc, resp>>
  /\ UNCHANGED <<extVars, catRest, op, poolVars, dom, encVars, tempVars, autoVars>>

\* simulateBrowserInteraction: maxAttempts reached, if (!response) throw
TimeoutSimulate(p) ==
  /\ impl = "app"
  /\ pc[p] = "w_poll"
  /\ watch[p].elapsed >= MaxWait
  /\ watch' = [watch EXCEPT ![p].timedOut = TRUE]
  /\ Reply(p, 500, "internal_server_error")
  /\ UNCHANGED <<extVars, catRest, op, poolVars, dom, encVars, tempVars, autoVars>>

\* one item written to the response: an SSE chunk, the [DONE] line, or res.end()
Chunk(kind, payload, hasUsage) == [kind |-> kind, payload |-> payload, usage |-> hasUsage]

\* handleStreamingResponse: res.writeHead(200), the initial chunk, setInterval
StartStream(p) ==
  /\ impl = "server"
  /\ pc[p] = "idle"
  /\ op' = [op EXCEPT ![p] = "chat"]
  /\ pc' = [pc EXCEPT ![p] = "s_poll"]
  /\ resp' = [resp EXCEPT ![p] =
        [status |-> 200, type |-> "text/event-stream", content |-> 0]]
  /\ out' = [out EXCEPT ![p] = <<Chunk("role", 0, FALSE)>>]
  /\ UNCHANGED <<extVars, catRest, poolVars, watchVars, answer, tempVars, autoVars>>

\* handleStreamingResponse: one run of the setInterval callback
PollStreaming(p) ==
  /\ impl = "server"
  /\ pc[p] = "s_poll"
  /\ watch[p].elapsed < MaxWait
  /\ LET d == dom[p]
         w == Seen(watch[p], d)
         changed == d.has /\ d.text # w.lastContent
         grew == d.has /\ d.text > w.lastContent
         count == IF ~d.has THEN w.noChangeCount
                  ELSE IF changed THEN 0 ELSE w.noChangeCount + 1
         fin == d.has /\ ((d.copy /\ ~w.isComplete) \/ count >= maxNoChangeCount)
         delta == IF grew
                  THEN <<Chunk("content", d.text - w.lastContent, FALSE)>>
                  ELSE <<>>
         tail == IF fin
                 THEN <<Chunk("finish", 0, TRUE), Chunk("done", 0, FALSE),
                        Chunk("end", 0, FALSE)>>
                 ELSE <<>>
     IN /\ watch' = [watch EXCEPT ![p] =
              [w EXCEPT !.lastContent = IF grew THEN d.text ELSE @,
                        !.noChangeCount = count,
                        !.isComplete = @ \/ fin,
                        !.elapsed = IF fin THEN @ ELSE @ + 1]]
        /\ out' = [out EXCEPT ![p] = @ \o delta \o tail]
        /\ pc' = [pc EXCEPT ![p] = IF fin THEN "done" ELSE @]
  /\ UNCHANGED <<extVars, catRest, op, resp, poolVars, dom, answer, tempVars, autoVars>>

\* handleStreamingResponse: the 60 s setTimeout fires with !isComplete
TimeoutStreaming(p) ==
  /\ impl = "server"
  /\ pc[p] = "s_poll"
  /\ watch[p].elapsed >= MaxWait
  /\ watch' = [watch EXCEPT ![p].timedOut = TRUE]
  /\ out' = [out EXCEPT ![p] = Append(@, Chunk("end", 0, FALSE))]
  /\ pc' = [pc EXCEPT ![p] = "done"]
  /\ UNCHANGED <<extVars, catRest, op, resp, poolVars, dom, answer, tempVars, autoVars>>

\* handleStreamingResponse: page.evaluate throws; catch: clearInterval, res.end()
ErrorStreaming(p) ==
  /\ impl = "server"
  /\ pc[p] = "s_poll"
  /\ watch[p].elapsed < MaxWait
  /\ out' = [out EXCEPT ![p] = Append(@, Chunk("end", 0, FALSE))]
  /\ pc' = [pc EXCEPT ![p] = "done"]
  /\ UNCHANGED <<extVars, catRest, op, resp, poolVars, watchVars, answer, tempVars, autoVars>>

\* the client closes the connection while its request is being watched; no
\* handler is registered for it, so nothing of the program's state changes
ClientClose(p) ==
  /\ pc[p] \in {"w_poll", "s_poll"}
  /\ ~watch[p].cancelled
  /\ watch' = [watch EXCEPT ![p].cancelled = TRUE]
  /\ UNCHANGED <<extVars, catVars, poolVars, dom, encVars, tempVars, autoVars>>

WatchStep(p) ==
  \/ StartWatch(p)
  \/ ClientClose(p)
  \/ StartStream(p)
  \/ PollStreaming(p)
  \/ TimeoutStreaming(p)
  \/ ErrorStreaming(p)
  \/ Site(p)
  \/ PollNonStreaming(p)
  \/ TimeoutNonStreaming(p)
  \/ PollWaitForResponse(p)
  \/ TimeoutWaitForResponse(p)
  \/ PollSimulate(p)
  \/ TimeoutSimulate(p)
  \/ Finish(p)

\* one request being watched, streaming or not
NextWatch == WatchStep(1)

SpecWatch == Init /\ [][NextWatch]_vars

\* the steps the event loop of Node runs by itself: a pass of a polling loop or
\* a callback of the interval, and the expiry of the timeout
WatcherRuns(p) ==
  \/ PollStreaming(p)
  \/ TimeoutStreaming(p)
  \/ PollNonStreaming(p)
  \/ TimeoutNonStreaming(p)
  \/ PollWaitForResponse(p)
  \/ TimeoutWaitForResponse(p)
  \/ PollSimulate(p)
  \/ TimeoutSimulate(p)

\* the same requests; a watcher that can run does run
SpecWatchFair == SpecWatch /\ WF_vars(WatcherRuns(1))

(* --------------------------- protocol encoder -------------------------- *)

\* this.splitIntoChunks(response.content, 10)
ChunkSize == 10

Chars == {" ", "a"}

\* the texts of at most n characters
RECURSIVE Strings(_)
Strings(n) ==
  IF n = 0 THEN {<<>>}
  ELSE LET shorter == Strings(n - 1)
       IN shorter \cup {Append(t, c) : t \in {x \in shorter : Len(x) = n - 1}, c \in Chars}

\* textContent.trim(): no white space at either end
Trimmed == {t \in Strings(MaxLen) : t = <<>> \/ (t[1] # " " /\ t[Len(t)] # " ")}

\* the reasoning texts tried: none, one word, two words
Reasonings == {<<>>, <<"a">>, <<"a", " ", "a">>}

\* text.split(' ')
RECURSIVE split(_)
split(text) ==
  IF \A i \in 1..Len(text) : text[i] # " " THEN <<text>>
  ELSE LET i == CHOOSE j \in 1..Len(text) :
                  text[j] = " " /\ \A k \in 1..(j - 1) : text[k] # " "
       IN <<SubSeq(text, 1, i - 1)>> \o split(SubSeq(text, i + 1, Len(text)))

\* words.join(' ')
RECURSIVE join(_)
join(words) ==
  IF words = <<>> THEN <<>>
  ELSE IF Len(words) = 1 THEN words[1]
  ELSE words[1] \o <<" ">> \o join(Tail(words))

\* words.slice(i, j), indices from 0
slice(words, i, j) ==
  SubSeq(words, i + 1, IF j < Len(words) THEN j ELSE Len(words))

\* a chunk that drops the space after a full group
NoSpaceAfter(chunk, more) == chunk

\* if (i + chunkSize < words.length) chunks.push(chunk + ' ') else chunks.push(chunk)
SpaceAfter(chunk, more) == IF more THEN chunk \o <<" ">> ELSE chunk

\* the for loop of splitIntoChunks, from index i
RECURSIVE chunksFrom(_, _, _)
chunksFrom(words, i, chunkSize) ==
  IF i >= Len(words) THEN <<>>
  ELSE <<SpaceAfter(join(slice(words, i, i + chunkSize)),
                    i + chunkSize < Len(words))>>
       \o chunksFrom(words, i + chunkSize, chunkSize)

\* ChatHandler.splitIntoChunks
splitIntoChunks(text, chunkSize) == chunksFrom(split(text), 0, chunkSize)

\* app.js: one chunk per word, (i === 0 ? words[i] : ' ' + words[i])
wordChunks(text) ==
  LET words == split(text)
  IN [i \in 1..Len(words) |-> IF i = 1 THEN words[i] ELSE <<" ">> \o words[i]]

\* the chunks of one kind carrying the given payloads
ChunksOf(kind, payloads) ==
  [i \in 1..Len(payloads) |-> Chunk(kind, payloads[i], FALSE)]

\* the finish chunk with usage, the [DONE] line, res.end()
Terminator ==
  <<Chunk("finish", <<>>, TRUE), Chunk("done", <<>>, FALSE), Chunk("end", <<>>, FALSE)>>

\* the watcher returned the CompletionResult of a stream: true request
WatcherReturns(p) ==
  /\ impl \in {"app", "modular"}
  /\ pc[p] = "idle"
  /\ op' = [op EXCEPT ![p] = "chat"]
  /\ pc' = [pc EXCEPT ![p] = "e_fmt"]
  /\ \E content \in Trimmed, reasoning \in Reasonings :
       /\ impl = "app" => (content # <<>> /\ reasoning = <<>>)
       /\ answer' = [answer EXCEPT ![p] =
                       [content |-> content, reasoning |-> reasoning]]
  /\ UNCHANGED <<extVars, catRest, resp, poolVars, watchVars, out, tempVars, autoVars>>

\* ChatHandler.formatStreamResponse, written out by the route of index.js
FormatStreamResponse(p) ==
  /\ impl = "modular"
  /\ pc[p] = "e_fmt"
  /\ out' = [out EXCEPT ![p] =
        <<Chunk("role", <<>>, FALSE)>>
        \o (IF answer[p].reasoning # <<>>
            THEN ChunksOf("reasoning", splitIntoChunks(answer[p].reasoning, ChunkSize))
            ELSE <<>>)
        \o ChunksOf("content", splitIntoChunks(answer[p].content, ChunkSize))
        \o Terminator]
  /\ resp' = [resp EXCEPT ![p] =
        [status |-> 200, type |-> "text/event-stream", content |-> 0]]
  /\ pc' = [pc EXCEPT ![p] = "done"]
  /\ UNCHANGED <<extVars, catRest, op, poolVars, watchVars, answer, tempVars, autoVars>>

\* app.js, stream branch: initial chunk, one chunk per word, finish chunk, [DONE]
StreamWords(p) ==
  /\ impl = "app"
  /\ pc[p] = "e_fmt"
  /\ out' = [out EXCEPT ![p] =
        <<Chunk("role", <<>>, FALSE)>>
        \o ChunksOf("content", wordChunks(answer[p].content))
        \o Terminator]
  /\ resp' = [resp EXCEPT ![p] =
        [status |-> 200, type |-> "text/event-stream", content |-> 0]]
  /\ pc' = [pc EXCEPT ![p] = "done"]
  /\ UNCHANGED <<extVars, catRest, op, poolVars, watchVars, answer, tempVars, autoVars>>

EncStep(p) ==
  \/ WatcherReturns(p)
  \/ FormatStreamResponse(p)
  \/ StreamWords(p)
  \/ Finish(p)

\* one completed answer being encoded as a stream
NextEnc == EncStep(1)

SpecEnc == Init /\ [][NextEnc]_vars

(* ----------------------------- temperature ----------------------------- *)

\* temperatures are counted in tenths

\* const { ..., temperature = 0.7, ... } = req.body
DefaultTemp == 7

\* temperature >= 0.0 && temperature <= 2.0
AppMin == 0
AppMax == 20

\* the positions of a slider with step 0.5
Grid == {t \in 0..MaxTemp : t % 5 = 0}

\* the temperatures a request may carry
Temps == Grid \cup {DefaultTemp}

\* the #temperature inputs a page may show, each at its own default value
Controls ==
  {NoControl} \cup
  {c \in [present : {TRUE}, min : Grid, max : Grid, value : Grid] :
     c.min <= c.value /\ c.value <= c.max}

\* parseFloat(el.min) || 0.0, parseFloat(el.max) || 2.0
OrElse(v, dflt) == IF v = 0 THEN dflt ELSE v

\* the value the input holds after `value = temp`: the number itself in a
\* number input, the nearest end of [min, max] in a range input
Assigned(c, temp) ==
  {temp, IF temp < c.min THEN c.min ELSE IF temp > c.max THEN c.max ELSE temp}

\* a chat request arrives and its page is ready for the temperature step
OpenControl(p) ==
  /\ pc[p] = "idle"
  /\ op' = [op EXCEPT ![p] = "chat"]
  /\ pc' = [pc EXCEPT ![p] = "t_set"]
  /\ \E t \in Temps \cup {Undefined}, c \in Controls :
       /\ temperature' = [temperature EXCEPT ![p] = t]
       /\ control' = [control EXCEPT ![p] = c]
  /\ UNCHANGED <<extVars, catRest, resp, poolVars, watchVars, encVars, autoVars>>

\* server.js handleChatCompletion: temperature step
SetTemperatureServer(p) ==
  /\ impl = "server"
  /\ pc[p] = "t_set"
  /\ LET t == IF temperature[p] = Undefined THEN DefaultTemp ELSE temperature[p]
         c == control[p]
     IN IF c.present /\ t >= c.min /\ t <= c.max
        THEN \E v \in Assigned(c, t) :
               control' = [control EXCEPT ![p].value = v]
        ELSE UNCHANGED control
  /\ pc' = [pc EXCEPT ![p] = "done"]
  /\ UNCHANGED <<extVars, catRest, op, resp, poolVars, watchVars, encVars, temperature, autoVars>>

\* ChatHandler.sendToBrowser: temperature step
SetTemperatureModular(p) ==
  /\ impl = "modular"
  /\ pc[p] = "t_set"
  /\ LET t == temperature[p]
         c == control[p]
     IN IF t # Undefined /\ c.present
        THEN \E v \in Assigned(c, t) :
               control' = [control EXCEPT ![p].value = v]
        ELSE UNCHANGED control
  /\ pc' = [pc EXCEPT ![p] = "done"]
  /\ UNCHANGED <<extVars, catRest, op, resp, poolVars, watchVars, encVars, temperature, autoVars>>

\* app.js simulateBrowserInteraction: temperature step
SetTemperatureApp(p) ==
  /\ impl = "app"
  /\ pc[p] = "t_set"
  /\ LET t == temperature[p]
         c == control[p]
         minVal == OrElse(c.min, AppMin)
         maxVal == OrElse(c.max, AppMax)
     IN IF /\ t # Undefined /\ t >= AppMin /\ t <= AppMax
           /\ c.present
           /\ t >= minVal /\ t <= maxVal
        THEN \E v \in Assigned(c, t) :
               control' = [control EXCEPT ![p].value = v]
        ELSE UNCHANGED control
  /\ pc' = [pc EXCEPT ![p] = "done"]
  /\ UNCHANGED <<extVars, catRest, op, resp, poolVars, watchVars, encVars, temperature, autoVars>>

TempStep(p) ==
  \/ OpenControl(p)
  \/ SetTemperatureServer(p)
  \/ SetTemperatureModular(p)
  \/ SetTemperatureApp(p)
  \/ Finish(p)

\* the temperature step of one request
NextTemp == TempStep(1)

SpecTemp == Init /\ [][NextTemp]_vars

(* ---------------------------- text extraction ------------------------- *)

\* texts are sequences of tokens: a word of the answer, a space, or one of the
\* two captions of the copy button
Labels == {"Copy", "Copied!"}
Tokens == {"a", " "} \cup Labels

\* the token sequences of at most n tokens
RECURSIVE TokenSeqs(_)
TokenSeqs(n) ==
  IF n = 0 THEN {<<>>}
  ELSE LET shorter == TokenSeqs(n - 1)
       IN shorter \cup {Append(t, c) : t \in {x \in shorter : Len(x) = n - 1}, c \in Tokens}

\* String.prototype.trim
RECURSIVE trim(_)
trim(t) ==
  IF t = <<>> THEN t
  ELSE IF Head(t) = " " THEN trim(Tail(t))
  ELSE IF t[Len(t)] = " " THEN trim(SubSeq(t, 1, Len(t) - 1))
  ELSE t

\* the answers the remote UI may show: non-empty, no white space at either end
Answers == {t \in TokenSeqs(MaxTokens) : t # <<>> /\ trim(t) = t}

\* lastResponse.textContent: the text of the answer and the caption of the copy
\* button inside the element, in document order
textContent(el) ==
  IF el.where = "before" THEN <<el.label>> \o el.answer ELSE el.answer \o <<el.label>>

\* content.replace('Copy', ''): a string pattern replaces its first occurrence
replace(t, w) ==
  IF \A i \in 1..Len(t) : t[i] # w THEN t
  ELSE LET i == CHOOSE j \in 1..Len(t) : t[j] = w /\ \A k \in 1..(j - 1) : t[k] # w
       IN SubSeq(t, 1, i - 1) \o SubSeq(t, i + 1, Len(t))

\* response.replace(/Copy$/, ''): the pattern matches at the end only
replaceAtEnd(t, w) ==
  IF t # <<>> /\ t[Len(t)] = w THEN SubSeq(t, 1, Len(t) - 1) ELSE t

\* server.js: content.replace('Copy', '').replace('Copied!', '').trim()
stripServer(el) == trim(replace(replace(textContent(el), "Copy"), "Copied!"))

\* app.js: response.replace(/Copy$/, '').replace(/Copied!$/, '').trim()
stripApp(el) == trim(replaceAtEnd(replaceAtEnd(textContent(el), "Copy"), "Copied!"))

\* waitForResponse: clone.querySelector('.copyres').remove(); clone.textContent.trim()
stripModular(el) == trim(el.answer)

\* the latest .response element shows an answer and its copy button
Rendered(p) ==
  /\ pc[p] = "idle"
  /\ op' = [op EXCEPT ![p] = "chat"]
  /\ pc' = [pc EXCEPT ![p] = "x_read"]
  /\ \E a \in Answers, l \in Labels, w \in {"before", "after"} :
       element' = [element EXCEPT ![p] = [answer |-> a, label |-> l, where |-> w]]
  /\ UNCHANGED <<leakVars, lifeVars, useVars, streamVars, catRest, resp, poolVars, watchVars, encVars, tempVars, autoVars>>

\* the page.evaluate of the watcher that reads the answer text
Extract(p) ==
  /\ pc[p] = "x_read"
  /\ answer' = [answer EXCEPT ![p].content =
        IF impl = "server" THEN stripServer(element[p])
        ELSE IF impl = "app" THEN stripApp(element[p])
        ELSE stripModular(element[p])]
  /\ pc' = [pc EXCEPT ![p] = "done"]
  /\ UNCHANGED <<extVars, catRest, op, resp, poolVars, watchVars, out, tempVars, autoVars>>

StripStep(p) ==
  \/ Rendered(p)
  \/ Extract(p)
  \/ Finish(p)

\* the text extraction of one response element
NextStrip == StripStep(1)

SpecStrip == Init /\ [][NextStrip]_vars

(* ------------------ streaming handler: callbacks and timer ------------- *)

\* the characters of a response text
Letters == {"a", "b"}

\* the texts a .response element can show, already stripped of the label
Contents == UNION {[1..n -> Letters] : n \in 0..MaxText}

\* what the page can show to the handler
Views == {NoView} \cup [has : {TRUE}, text : Contents, copy : BOOLEAN]

\* String.prototype.substring(n)
substring(t, n) == SubSeq(t, n + 1, Len(t))

\* the value page.evaluate resolves with, or its rejection
Evaluated(v) ==
  IF v.has THEN [kind |-> "value", content |-> v.text, isComplete |-> v.copy]
  ELSE [kind |-> "null", content |-> <<>>, isComplete |-> FALSE]

Rejected == [kind |-> "error", content |-> <<>>, isComplete |-> FALSE]

\* handleStreamingResponse up to its return: writeHead, the initial chunk,
\* the locals, setInterval(..., 500) and setTimeout(..., 60000)
OpenStream(p) ==
  /\ impl = "server"
  /\ pc[p] = "idle"
  /\ op' = [op EXCEPT ![p] = "chat"]
  /\ pc' = [pc EXCEPT ![p] = "s_live"]
  /\ resp' = [resp EXCEPT ![p] =
        [status |-> 200, type |-> "text/event-stream", content |-> 0]]
  /\ out' = [out EXCEPT ![p] = <<Chunk("role", 0, FALSE)>>]
  /\ cb' = [cb EXCEPT ![p] = [NoHandler EXCEPT !.interval = TRUE, !.timer = TRUE]]
  /\ UNCHANGED <<leakVars, stripVars, lifeVars, useVars, sdom, catRest, poolVars, watchVars,
                 answer, tempVars, autoVars>>

\* the remote page renders while it is polled: the element appears, its text
\* changes, the copy button is added
Renders(p) ==
  /\ pc[p] = "s_live"
  /\ cb[p].interval \/ cb[p].inflight > 0
  /\ \E v \in Views \ {sdom[p]} : sdom' = [sdom EXCEPT ![p] = v]
  /\ UNCHANGED <<leakVars, stripVars, lifeVars, useVars, cb, catVars, poolVars, watchVars,
                 encVars, tempVars, autoVars>>

\* the interval fires: the callback runs up to await page.evaluate(...) and
\* is suspended there; inflight counts the suspended callbacks
Evaluates(p) ==
  /\ pc[p] = "s_live"
  /\ cb[p].interval
  /\ cb[p].inflight < MaxInflight
  /\ cb' = [cb EXCEPT ![p].inflight = @ + 1]
  /\ UNCHANGED <<leakVars, stripVars, lifeVars, useVars, sdom, catVars, poolVars, watchVars,
                 encVars, tempVars, autoVars>>

\* page.evaluate reads the page, or is rejected, and the suspended callback
\* resumes after its await and runs to its end
Resumes(p) ==
  /\ pc[p] = "s_live"
  /\ cb[p].inflight > 0
  /\ \E r \in {Evaluated(sdom[p]), Rejected} :
     LET h == cb[p]
         changed == r.content # h.lastContent
         newContent == substring(r.content, Len(h.lastContent))
         wrote == changed /\ newContent # <<>>
         last == IF wrote THEN r.content ELSE h.lastContent
         count == IF changed THEN 0 ELSE h.noChangeCount + 1
         fin == (r.isComplete /\ ~h.isComplete) \/ count >= maxNoChangeCount
     IN IF r.kind = "error"
        THEN /\ cb' = [cb EXCEPT ![p] = [h EXCEPT !.inflight = @ - 1,
                                                  !.interval = FALSE]]
             /\ out' = [out EXCEPT ![p] = Append(@, Chunk("end", 0, FALSE))]
        ELSE IF r.kind = "null"
        THEN /\ cb' = [cb EXCEPT ![p].inflight = @ - 1]
             /\ out' = out
        ELSE /\ cb' = [cb EXCEPT ![p] =
                   [h EXCEPT !.inflight = @ - 1,
                             !.lastContent = last,
                             !.noChangeCount = count,
                             !.isComplete = @ \/ fin,
                             !.interval = @ /\ ~fin]]
             /\ out' = [out EXCEPT ![p] =
                   @ \o (IF wrote THEN <<Chunk("content", newContent, FALSE)>>
                         ELSE <<>>)
                     \o (IF fin
                         THEN <<Chunk("finish", Len(last), TRUE),
                                Chunk("done", 0, FALSE), Chunk("end", 0, FALSE)>>
                         ELSE <<>>)]
  /\ UNCHANGED <<leakVars, stripVars, lifeVars, useVars, sdom, catVars, poolVars, watchVars,
                 answer, tempVars, autoVars>>

\* the 60 s timer fires: if (!isComplete) { clearInterval; res.end() }
TimerFires(p) ==
  /\ pc[p] = "s_live"
  /\ cb[p].timer
  /\ cb' = [cb EXCEPT ![p] = [@ EXCEPT !.timer = FALSE,
                                       !.interval = @ /\ cb[p].isComplete]]
  /\ out' = [out EXCEPT ![p] =
        IF cb[p].isComplete THEN @ ELSE Append(@, Chunk("end", 0, FALSE))]
  /\ UNCHANGED <<leakVars, stripVars, lifeVars, useVars, sdom, catVars, poolVars, watchVars,
                 answer, tempVars, autoVars>>

\* no timer is pending and no callback is suspended: the handler is over
Settled(p) ==
  /\ pc[p] = "s_live"
  /\ ~cb[p].interval /\ ~cb[p].timer /\ cb[p].inflight = 0
  /\ pc' = [pc EXCEPT ![p] = "done"]
  /\ UNCHANGED <<extVars, catRest, op, resp, poolVars, watchVars, encVars,
                 tempVars, autoVars>>

StreamStep(p) ==
  \/ OpenStream(p)
  \/ Renders(p)
  \/ Evaluates(p)
  \/ Resumes(p)
  \/ TimerFires(p)
  \/ Settled(p)
  \/ Finish(p)

\* one streaming response of server.js, its callbacks interleaved
NextStream == StreamStep(1)

SpecStream == Init /\ [][NextStream]_vars

(* ---------------------------- usage accounting ------------------------ *)

\* prompt_tokens: 10
FixedPrompt == 10

\* app.js: prompt_tokens: formattedMessages.length, completion_tokens:
\* response.length, total_tokens: their sum
usageApp(prompt, content) ==
  [prompt_tokens |-> prompt, completion_tokens |-> content,
   total_tokens |-> prompt + content]

\* server.js: prompt_tokens: 10, completion_tokens: lastContent.length,
\* total_tokens: 10 + lastContent.length
usageServer(prompt, content) ==
  [prompt_tokens |-> FixedPrompt, completion_tokens |-> content,
   total_tokens |-> FixedPrompt + content]

\* ChatHandler.formatNonStreamResponse / formatStreamResponse: all three are 0
usageModular(prompt, content) ==
  [prompt_tokens |-> 0, completion_tokens |-> 0, total_tokens |-> 0]

\* the watcher returned a non-empty content for a request whose serialized
\* prompt ("role:content;...") has some size; sizes are counted in characters
Answered(p) ==
  /\ pc[p] = "idle"
  /\ op' = [op EXCEPT ![p] = "chat"]
  /\ pc' = [pc EXCEPT ![p] = "u_fmt"]
  /\ \E n \in 1..MaxPrompt, c \in Texts \ {0}, st \in BOOLEAN :
       sizes' = [sizes EXCEPT ![p] = [prompt |-> n, content |-> c, stream |-> st]]
  /\ UNCHANGED <<leakVars, stripVars, lifeVars, usage, streamVars, catRest, resp, poolVars,
                 watchVars, encVars, tempVars, autoVars>>

\* the response object, or the terminal chunk of the stream, is built
WriteUsage(p) ==
  /\ pc[p] = "u_fmt"
  /\ usage' = [usage EXCEPT ![p] =
        IF impl = "app" THEN usageApp(sizes[p].prompt, sizes[p].content)
        ELSE IF impl = "server" THEN usageServer(sizes[p].prompt, sizes[p].content)
        ELSE usageModular(sizes[p].prompt, sizes[p].content)]
  /\ IF sizes[p].stream
     THEN /\ resp' = [resp EXCEPT ![p] =
                [status |-> 200, type |-> "text/event-stream", content |-> 0]]
          /\ pc' = [pc EXCEPT ![p] = "done"]
     ELSE ReplyContent(p, sizes[p].content)
  /\ UNCHANGED <<leakVars, stripVars, lifeVars, sizes, streamVars, catRest, op, poolVars,
                 watchVars, encVars, tempVars, autoVars>>

UsageStep(p) ==
  \/ Answered(p)
  \/ WriteUsage(p)
  \/ Finish(p)

\* the usage object of one answered request
NextUsage == UsageStep(1)

SpecUsage == Init /\ [][NextUsage]_vars

(* ------------------------- catalog: properties ------------------------ *)

\* the models of the paths whose fetch succeeded
OkUnion(f) == UNION {f[path].ids : path \in {x \in MODEL_PATHS : f[x].st = "ok"}}

SomeFailed(f) ==
  /\ AllFetched(f)
  /\ \E path \in MODEL_PATHS : f[path].st = "fail"
  /\ \E path \in MODEL_PATHS : f[path].st = "ok"

\* the catalog the readers of the running implementation are served from
Catalog == IF impl = "server" THEN IdSet(cache.list) ELSE IdSet(models)

\* the step with which the refresh of p has stored (or declined to store) its result
RefreshSettles(p) ==
  \/ pc[p] = "fetch" /\ pc'[p] \notin {"fetch", "del"}
  \/ pc[p] = "ins" /\ pc'[p] = "setc"

ReadPcs == {"l_rows", "c_find", "c_refind"}
Scope(p) == IF pc[p] = "l_rows" THEN Ids ELSE {req[p]}

\* C1: every read of the models table made while a replace is in progress
\* (between its DELETE and its last INSERT) finds exactly the old id set or
\* exactly the new one, never an empty, partial or mixed set.
C1_AtomicReplace ==
  [][\A p \in Procs :
       (repl.active /\ pc[p] \in ReadPcs /\ pc'[p] # pc[p])
       => (IdSet(models) \cap Scope(p))
            \in {repl.old \cap Scope(p), repl.new \cap Scope(p)}]_vars

\* C4: the read of the freshness entry is a hit only when now < expiresAt; an
\* entry with expiresAt <= now (or no entry) is absent and starts a refresh.
C4_CacheValidity ==
  [][\A p \in Procs :
       (pc[p] = "l_check" /\ pc'[p] # "l_check")
       => ((pc'[p] = "fetch" /\ nref'[p] = nref[p] + 1)
            <=> ~(cache.present /\ now < cache.expiresAt))]_vars

C4_Witness ==
  \E p \in Procs :
    /\ cread[p] = "expired" /\ pc[p] = "fetch" /\ nref[p] = 1
    /\ cache.present /\ cache.expiresAt <= now

\* C5 as claimed: when some but not all paths throw, the refresh does not raise
\* and the catalog it leaves is exactly the union of the succeeded paths' models.
C5_PartialFailure ==
  [][\A p \in Procs :
       (RefreshSettles(p) /\ SomeFailed(fetched[p]))
       => (rout'[p] # "throw" /\ Catalog' = OkUnion(fetched[p]))]_vars

\* C5 amended: the same, when that union is not empty.
C5_PartialFailureNonEmpty ==
  [][\A p \in Procs :
       (RefreshSettles(p) /\ SomeFailed(fetched[p]) /\ OkUnion(fetched[p]) # {})
       => (rout'[p] # "throw" /\ Catalog' = OkUnion(fetched[p]))]_vars

C5_Witness ==
  \E p \in Procs :
    /\ SomeFailed(fetched[p]) /\ OkUnion(fetched[p]) # {}
    /\ rout[p] = "ok"
    /\ Catalog = OkUnion(fetched[p])

\* C6: a refresh whose union of models is empty ends as a failure for its caller.
C6_EmptyUnionFails ==
  \A p \in Procs :
    (rout[p] # "none" /\ AllFetched(fetched[p]) /\ OkUnion(fetched[p]) = {})
    => rout[p] = "throw"

\* C7: no step of a request whose refresh found an empty union changes the
\* models table or the freshness entry.
C7_EmptyUnionKeepsCatalog ==
  [][\A p \in Procs :
       (/\ nref[p] > 0 /\ AllFetched(fetched[p]) /\ OkUnion(fetched[p]) = {}
        /\ pc'[p] # pc[p])
       => (models' = models /\ cache' = cache)]_vars

C7_Witness ==
  \E p \in Procs :
    /\ rout[p] # "none" /\ AllFetched(fetched[p]) /\ OkUnion(fetched[p]) = {}
    /\ models # {} /\ cache.present

\* the first catalog lookup of the chat request of p missed
FirstLookupMissed(p) ==
  IF impl = "server" THEN resp[p].status = 400 ELSE nref[p] > 0

\* C8: a chat request whose model id is absent from the stored catalog has
\* made exactly one catalog refresh by the time it is answered or automated.
C8_OneRefreshOnMiss ==
  \A p \in Procs :
    (op[p] = "chat" /\ pc[p] \in {"done", "auto"} /\ FirstLookupMissed(p))
    => nref[p] = 1

\* C9: a chat request whose model is still unknown after the refresh is answered
\* 400 with error.type = "invalid_request_error".
C9_UnknownModel400 ==
  \A p \in Procs :
    (op[p] = "chat" /\ pc[p] = "done")
    => (resp[p].status = 400 /\ resp[p].type = "invalid_request_error")

(* ----------------------- session pool: properties --------------------- *)

\* p has begun driving its page (the model is selected) and has not finished
Driving(p) == pc[p] \in {"ui_type", "ui_send", "ui_enter", "ui_poll"}

\* C2: no two chat requests are driving the same page at the same time.
C2_SameGroupSerialized ==
  \A p, q \in Procs :
    (p # q /\ Driving(p) /\ Driving(q)) => page[p] # page[q]

\* C3: at most one page has been created and is live for a group, and all the
\* requests that acquired a page for that group hold that same page.
C3_OneSessionPerGroup ==
  /\ \A path \in MODEL_PATHS : Cardinality(OpenFor(path)) <= 1
  /\ \A p, q \in Procs :
       (/\ page[p] # NoPage /\ page[q] # NoPage
        /\ pc[p] # "g_set" /\ pc[q] # "g_set"
        /\ modelPath[p] = modelPath[q])
       => page[p] = page[q]

(* ------------------------- watcher: properties ------------------------ *)

\* C10: a watcher that ended on the overall timeout, with no completion signal
\* on any poll but a non-empty response text on the page at some poll, answers
\* 200 with the last such text as the message content.
C10_TimeoutPartialContent ==
  \A p \in Procs :
    (/\ pc[p] = "done" /\ watch[p].timedOut
     /\ ~watch[p].signal /\ watch[p].seenText > 0)
    => (resp[p].status = 200 /\ resp[p].content = watch[p].seenText)

\* the kinds of the items written to the response of p, in order
Kinds(p) == [i \in 1..Len(out[p]) |-> out[p][i].kind]

\* the request of p ended with an error: an error status or an error chunk
ErrorOutcome(p) ==
  \/ resp[p].status >= 400
  \/ \E i \in 1..Len(out[p]) : out[p][i].kind = "error"

\* C11: a watcher that ended on the overall timeout without ever seeing response
\* text ends its request with an error outcome, not a success and not a stream
\* closed without a word.
C11_TimeoutNoContent ==
  \A p \in Procs :
    (pc[p] = "done" /\ watch[p].timedOut /\ watch[p].seenText = 0)
    => ErrorOutcome(p)

\* the stream of p completed: its terminal chunk was written
Completed(p) == \E i \in 1..Len(out[p]) : out[p][i].kind = "finish"

\* role, reasoning*, content+, finish(usage), then only [DONE] and the close
RECURSIVE WellOrdered(_, _)
WellOrdered(ks, phase) ==
  IF ks = <<>> THEN phase = "finish"
  ELSE LET k == Head(ks) IN
       CASE phase = "start" -> k = "role" /\ WellOrdered(Tail(ks), "role")
         [] phase = "role" ->
              /\ k \in {"reasoning", "content"}
              /\ WellOrdered(Tail(ks), k)
         [] phase = "reasoning" ->
              /\ k \in {"reasoning", "content"}
              /\ WellOrdered(Tail(ks), k)
         [] phase = "content" ->
              /\ k \in {"content", "finish"}
              /\ WellOrdered(Tail(ks), k)
         [] phase = "finish" ->
              /\ k \in {"done", "end"}
              /\ WellOrdered(Tail(ks), "finish")
         [] OTHER -> FALSE

\* C12: a completed streaming response is one role chunk, then reasoning chunks,
\* then at least one content chunk, then one terminal chunk with usage; nothing
\* but the [DONE] line and the close follows the terminal chunk.
C12_ChunkOrder ==
  \A p \in Procs :
    (pc[p] = "done" /\ Completed(p))
    => /\ WellOrdered(Kinds(p), "start")
       /\ \A i \in 1..Len(out[p]) : out[p][i].kind = "finish" => out[p][i].usage

\* C13: a streaming response that has started (role chunk written) and is closed
\* ends with a terminal chunk carrying usage, the [DONE] line, and the close.
C13_StreamTerminator ==
  \A p \in Procs :
    (pc[p] = "done" /\ out[p] # <<>>)
    => /\ Len(out[p]) >= 4
       /\ out[p][Len(out[p]) - 2].kind = "finish"
       /\ out[p][Len(out[p]) - 2].usage
       /\ out[p][Len(out[p]) - 1].kind = "done"
       /\ out[p][Len(out[p])].kind = "end"

(* ------------------------- encoder: properties ------------------------ *)

\* the payloads of the chunks of one kind written for p, in order
RECURSIVE PayloadsIn(_, _)
PayloadsIn(items, kind) ==
  IF items = <<>> THEN <<>>
  ELSE (IF Head(items).kind = kind THEN <<Head(items).payload>> ELSE <<>>)
       \o PayloadsIn(Tail(items), kind)

RECURSIVE Concat(_)
Concat(seqs) == IF seqs = <<>> THEN <<>> ELSE Head(seqs) \o Concat(Tail(seqs))

\* C14: the payloads of the content chunks of a word-chunked streaming response,
\* concatenated in the order written, are exactly the content text.
C14_ChunkRoundTrip ==
  \A p \in Procs :
    (pc[p] = "done" /\ Completed(p))
    => Concat(PayloadsIn(out[p], "content")) = answer[p].content

C14_Witness ==
  \E p \in Procs :
    /\ pc[p] = "done" /\ impl = "modular"
    /\ Len(PayloadsIn(out[p], "content")) >= 2
    /\ Concat(PayloadsIn(out[p], "content")) = answer[p].content

\* payloads are the groups of ChunkSize words of text, each but the last followed
\* by one space, the last holding 1..ChunkSize words and no added space
Grouped(payloads, text) ==
  LET words == split(text)
      n == Len(payloads)
  IN /\ n >= 1
     /\ (n - 1) * ChunkSize < Len(words)
     /\ Len(words) <= n * ChunkSize
     /\ \A i \in 1..n :
          payloads[i] =
            IF i < n
            THEN join(SubSeq(words, (i - 1) * ChunkSize + 1, i * ChunkSize)) \o <<" ">>
            ELSE join(SubSeq(words, (i - 1) * ChunkSize + 1, Len(words)))

\* C15: the content text, and the reasoning text when there is one, are emitted
\* in groups of 10 words: every chunk but the last holds exactly 10 words and one
\* trailing space, the last 1 to 10 words and no added space; at least one
\* content chunk is emitted.
C15_WordGrouping ==
  \A p \in Procs :
    (pc[p] = "done" /\ Completed(p))
    => /\ Grouped(PayloadsIn(out[p], "content"), answer[p].content)
       /\ answer[p].reasoning # <<>>
            => Grouped(PayloadsIn(out[p], "reasoning"), answer[p].reasoning)

(* ----------------------- temperature: properties ---------------------- *)

\* the temperature step of p is taken in this step
TemperatureStep(p) == pc[p] = "t_set" /\ pc'[p] = "done"

InRange(p) ==
  temperature[p] >= control[p].min /\ temperature[p] <= control[p].max

\* C16: a requested temperature outside [min, max] of the page's control leaves
\* the control's value as it was; one inside the range is the control's value
\* when the message is sent.
C16_TemperatureClamp ==
  [][\A p \in Procs :
       (TemperatureStep(p) /\ temperature[p] # Undefined /\ control[p].present)
       => IF InRange(p)
          THEN control'[p].value = temperature[p]
          ELSE control'[p] = control[p]]_vars

(* ------------------------- watcher: poll steps ------------------------- *)

\* this step is a poll of p's page on which the watcher reports Complete
CompletesOnPoll(p) ==
  /\ pc[p] \in {"w_poll", "s_poll"}
  /\ pc'[p] = "done"
  /\ ~watch'[p].timedOut
  /\ pc[p] = "s_poll" => watch'[p].isComplete

\* this step is a poll of p's page that read it
Polled(p) ==
  /\ pc[p] \in {"w_poll", "s_poll"}
  /\ watch'[p].elapsed > watch[p].elapsed \/ CompletesOnPoll(p)

RECURSIVE Sum(_)
Sum(ns) == IF ns = <<>> THEN 0 ELSE Head(ns) + Sum(Tail(ns))

\* the text handed to the client by a step that completes: the content of the
\* reply, or what the content chunks of the stream add up to
ReturnedText(p) ==
  IF pc[p] = "s_poll" THEN Sum(PayloadsIn(out'[p], "content"))
  ELSE resp'[p].content

\* C17: a poll that sees the copy button on the latest response together with
\* non-empty text completes the request on that poll, with that text.
C17_CopyCompletes ==
  [][\A p \in Procs :
       (Polled(p) /\ dom[p].copy /\ dom[p].text > 0)
       => (CompletesOnPoll(p) /\ ReturnedText(p) = dom[p].text)]_vars

\* C18: with no copy button seen so far, the poll on which the non-empty text
\* has stayed the same for maxNoChangeCount polls in a row without a loading
\* indicator completes the request with that text, before the timeout.
C18_IdleFallback ==
  [][\A p \in Procs :
       (/\ Polled(p)
        /\ ~watch'[p].sawCopy
        /\ watch'[p].idleRun >= maxNoChangeCount)
       => (CompletesOnPoll(p) /\ ReturnedText(p) = dom[p].text)]_vars

\* C19: a poll completes the request without any copy button seen only when the
\* text has stayed the same for maxNoChangeCount polls in a row with no loading
\* indicator; never on a text that just changed or beside an indicator.
C19_NoPrematureIdle ==
  [][\A p \in Procs :
       (CompletesOnPoll(p) /\ ~watch'[p].sawCopy)
       => watch'[p].idleRun >= maxNoChangeCount]_vars

\* C20: once the client of a request has disconnected, the page is not polled
\* for that request again.
C20_CancelStopsPolling ==
  [][\A p \in Procs : watch[p].cancelled => ~Polled(p)]_vars

(* ------------------------ validation: properties ---------------------- *)

\* the chat request of p lacks messages, has an empty list, or lacks the model
Invalid(p) == op[p] = "chat" /\ (messages[p] \in {"missing", "empty"} \/ req[p] = 0)

\* C21: a chat request with missing messages, an empty messages list or a
\* missing model never starts a catalog refresh nor reaches browser automation,
\* and the answer it gets is a 400.
C21_ValidationRejects ==
  \A p \in Procs :
    Invalid(p)
    => /\ nref[p] = 0
       /\ pc[p] # "auto"
       /\ pc[p] = "done" => resp[p].status = 400

(* ------------------------ automation: properties ---------------------- *)

\* this step ends the request of p on an exception of its automation
AutomationFails(p) ==
  /\ pc[p] \in {"ui_nav", "ui_select", "ui_type", "ui_send", "ui_enter"}
  /\ pc'[p] = "done"
  /\ detail'[p]

\* after this step the next request for p's group cannot reuse p's page as it
\* is: the page is closed, or out of the pool, or off the group's page (so that
\* the request navigates first)
SessionInvalidated(p) ==
  \/ live'[page[p]].st = "none"
  \/ pages'[modelPath[p]] # page[p]
  \/ live'[page[p]].url # modelPath[p]

\* C22: when an automation step of a request fails, the request is answered
\* with an error at once (no retry) and the session of its group is invalidated,
\* so that the next request for the group navigates before it interacts.
C22_FailureInvalidates ==
  [][\A p \in Procs :
       AutomationFails(p)
       => (resp'[p].status >= 400 /\ SessionInvalidated(p))]_vars

\* C24: no error response carries the message of an internal exception.
C24_NoInternalDetail ==
  \A p \in Procs :
    (pc[p] = "done" /\ resp[p].status >= 400) => ~detail[p]

\* the place of a UI action in the order navigate, select, temperature, type,
\* send (a click that went through or the keyboard), poll
Rank(a) ==
  CASE a = "nav" -> 1
    [] a = "select" -> 2
    [] a = "temp" -> 3
    [] a = "type" -> 4
    [] a = "click_failed" -> 5
    [] a \in {"click", "enter"} -> 6
    [] a = "poll" -> 7

Sends(t) == Cardinality({i \in 1..Len(t) : t[i] \in {"click", "enter"}})

\* C28: the UI actions of a request happen in the order navigate, select model,
\* temperature, input message, send, poll (only failed clicks repeat); a request
\* that polls has navigated, selected and typed, and has sent exactly once.
C28_StepOrder ==
  \A p \in Procs :
    LET t == trail[p] IN
      /\ \A i, j \in 1..Len(t) :
           i < j => \/ Rank(t[i]) < Rank(t[j])
                    \/ (t[i] = "click_failed" /\ t[j] = "click_failed")
      /\ (pc[p] = "ui_poll" \/ \E i \in 1..Len(t) : t[i] = "poll")
           => /\ Sends(t) = 1
              /\ \A a \in {"nav", "select", "type"} : \E i \in 1..Len(t) : t[i] = a

C28_Witness ==
  \E p \in Procs :
    /\ pc[p] = "done" /\ resp[p].status = 200
    /\ trail[p] = <<"nav", "select", "temp", "type", "click_failed", "click", "poll">>

\* C29: at most MaxClicks click attempts are made and none after a click went
\* through; once the send step is over, the keyboard submit was used exactly
\* when clicks were attempted and every one of them failed.
C29_SendFallback ==
  \A p \in Procs :
    LET t == trail[p]
        clicks == {i \in 1..Len(t) : t[i] \in {"click", "click_failed"}}
    IN /\ Cardinality(clicks) <= MaxClicks
       /\ \A i, j \in clicks : (i < j) => t[i] # "click"
       /\ pc[p] \in {"ui_poll", "done"}
            => ((\E i \in 1..Len(t) : t[i] = "enter")
                 <=> (clicks # {} /\ ~ClickSuccess(t)))

\* C30: a request selects the model or types only on a page that is at its
\* group's page with the selector and the message input present.
C30_ValidatedBeforeUse ==
  [][\A p \in Procs :
       (pc[p] \in {"ui_select", "ui_type"} /\ pc'[p] # pc[p])
       => (live[page[p]].url = modelPath[p] /\ live[page[p]].ready)]_vars

(* ---------------------- catalog: further properties -------------------- *)

\* C23: every error response has status 400 or 500 and a body whose error is an
\* object with a message and a type.
C23_ErrorShape ==
  \A p \in Procs :
    (pc[p] = "done" /\ resp[p].status >= 400)
    => (resp[p].status \in {400, 500} /\ resp[p].type # "")

\* the step starts a refresh for p
Refreshes(p) == pc'[p] = "fetch" /\ nref'[p] = nref[p] + 1

\* C25: getModelsList(false) returns the stored catalog, without a fetch, when
\* the freshness entry is unexpired and the stored catalog is not empty; with an
\* expired or missing entry, an empty stored catalog, or forceRefresh = true
\* (the lookup miss of processChat), it starts a refresh.
C25_GetModelsList ==
  [][impl = "modular" =>
      \A p \in Procs :
        /\ (pc[p] = "l_check" /\ pc'[p] # pc[p])
             => IF cache.present /\ now < cache.expiresAt
                THEN pc'[p] = "l_rows" /\ nref'[p] = nref[p]
                ELSE Refreshes(p)
        /\ (pc[p] = "l_rows" /\ pc'[p] # pc[p])
             => IF models # {}
                THEN /\ pc'[p] = "done" /\ resp'[p].status = 200
                     /\ listed'[p] = IdSet(models)
                     /\ nref'[p] = nref[p]
                ELSE Refreshes(p)
        /\ (pc[p] = "c_find" /\ pc'[p] # pc[p] /\ req[p] \notin IdSet(models))
             => Refreshes(p)]_vars

C25_Witness ==
  \E p \in Procs :
    /\ impl = "modular" /\ op[p] = "list" /\ pc[p] = "done"
    /\ nref[p] = 0 /\ cread[p] = "hit"
    /\ listed[p] = IdSet(models) /\ models # {}

\* the step with which a refresh of p that fetched some model ends successfully
RefreshSucceeds(p) ==
  /\ rout[p] # "ok" /\ rout'[p] = "ok"
  /\ Flat(fetched[p]) # {}

\* C26: after a successful refresh the stored catalog holds exactly the ids that
\* refresh obtained: the models table, and the list requests are served from.
C26_ReplaceNotMerge ==
  [][\A p \in Procs :
       RefreshSucceeds(p)
       => (IdSet(models') = Flat(fetched[p]) /\ Catalog' = Flat(fetched[p]))]_vars

C31_GroupResolvesToPath ==
  /\ \A r \in models \cup cache.list :
       Cardinality({path \in MODEL_PATHS : Lower(path) = r.group}) = 1
  /\ \A p \in Procs :
       (op[p] = "chat" /\ pc[p] = "auto") => modelPath[p] = OwnerPath(req[p])

(* ----------------------- text extraction: property --------------------- *)

\* C32: the answer text extracted from a response element is the element's text
\* with the caption of the copy button removed and nothing else changed, also
\* when the answer itself contains the word of a caption.
C32_LabelStripping ==
  \A p \in Procs :
    (pc[p] = "done" /\ element[p] # NoElement)
    => answer[p].content = element[p].answer

(* ------------------------ watcher: termination ------------------------ *)

\* the length of one poll interval in units of 500 ms: app.js sleeps 1000 ms
Interval == IF impl = "app" THEN 2 ELSE 1

\* the time p's watcher has waited, in units of 500 ms
Waited(p) == watch[p].elapsed * Interval

Watching(p) == pc[p] \in {"w_poll", "s_poll"}

C34_FanOutJoin ==
  /\ (pc[1] = "fetch") ~> (pc[1] # "fetch")
  /\ [][\A p \in Procs :
          (pc[p] = "fetch" /\ pc'[p] # "fetch")
          => (AllFetched(fetched[p]) /\ OkUnion(fetched[p]) = Flat(fetched[p]))]_vars

(* ----------------------- browser lifecycle: properties ----------------- *)

\* every page in the pool is an open page of the browser the pool holds, and
\* that browser is running
PoolLive ==
  \A path \in MODEL_PATHS :
    pages[path] # NoPage
    => /\ browser # NoBrowser /\ browser \notin closed
       /\ live[pages[path]].st = "open"
       /\ live[pages[path]].browser = browser

\* the step with which getPage hands a page to the request of p
Acquires(p) == pc[p] \in {"g_has", "g_set"} /\ pc'[p] = "ui_nav"

\* C35: once close has completed the pool holds no page and no browser, and the
\* acquire that follows gets a page of a browser launched after the close; at
\* all times every page held in the pool belongs to the running browser.
C35_CloseAll ==
  /\ []PoolLive
  /\ [][/\ (closer = "closing" /\ closer' = "idle")
            => (browser' = NoBrowser /\ \A path \in MODEL_PATHS : pages'[path] = NoPage)
         /\ \A p \in Procs :
              Acquires(p)
              => (/\ live'[page'[p]].st = "open"
                  /\ live'[page'[p]].browser \notin closed')]_vars

\* the browsers launched and not closed
Running == (1..nlaunch) \ closed

\* C39: whatever the interleaving of the requests that call the lazy
\* initialiser, at most one launched browser is running at a time, and every
\* caller works on that same browser: all open pages belong to one browser.
C39_SingleBrowser ==
  /\ Cardinality(Running) <= 1
  /\ \A i, j \in PageIds :
       (live[i].st = "open" /\ live[j].st = "open")
       => live[i].browser = live[j].browser

(* ---------------------- per-operation pages: property ---------------- *)

\* the operation of p has finished: its handler has answered or moved on
Finished(p) == pc[p] \in {"done", "auto"}

\* C40: when an operation has finished, normally or by an exception or a
\* timeout, the pages it opened for itself are closed: the page of a chat
\* request of app.js and sendToBrowser, the discovery page of each path.
C40_NoLeakedPages ==
  \A p \in Procs :
    Finished(p)
    => /\ \A path \in MODEL_PATHS : opened[p][path] # "open"
       /\ (impl # "server" /\ page[p] # NoPage) => live[page[p]].st # "open"

(* ---------------------------- usage: property -------------------------- *)

\* a count of the characters or of the words of a text of the given size
Derived(tokens, size) ==
  IF size = 0 THEN tokens = 0 ELSE tokens >= 1 /\ tokens <= size

\* C36: in every answered response, streamed or not, completion_tokens is a
\* count over the returned content, prompt_tokens a count over the serialized
\* prompt, and total_tokens is their sum.
C36_UsageAccounting ==
  \A p \in Procs :
    (pc[p] = "done" /\ sizes[p] # NoSizes)
    => /\ Derived(usage[p].completion_tokens, sizes[p].content)
       /\ Derived(usage[p].prompt_tokens, sizes[p].prompt)
       /\ usage[p].total_tokens = usage[p].prompt_tokens + usage[p].completion_tokens

(* ---------------------- streaming handler: properties ------------------ *)

\* the number of items of one kind written for a response
Written(items, kind) == Len(PayloadsIn(items, kind))

\* the items written after the first res.end()
RECURSIVE AfterEnd(_)
AfterEnd(items) ==
  IF items = <<>> THEN <<>>
  ELSE IF Head(items).kind = "end" THEN Tail(items)
  ELSE AfterEnd(Tail(items))

\* C37: whatever the interleaving of the interval callbacks and the 60 s timer,
\* the terminal chunk and [DONE] are written at most once, the response is
\* ended at most once, and nothing is written after it has been ended.
C37_StreamFinalisedOnce ==
  \A p \in Procs :
    pc[p] \in {"s_live", "done"}
    => /\ Written(out[p], "finish") <= 1
       /\ Written(out[p], "done") <= 1
       /\ Written(out[p], "end") <= 1
       /\ AfterEnd(out[p]) = <<>>

\* C38: after any sequence of polls the content deltas written so far,
\* concatenated, are lastContent, and the completion_tokens of the terminal
\* chunk is the length of that concatenation.
C38_DeltasReconstruct ==
  \A p \in Procs :
    pc[p] = "s_live"
    => /\ Concat(PayloadsIn(out[p], "content")) = cb[p].lastContent
       /\ \A n \in 1..Len(PayloadsIn(out[p], "finish")) :
            PayloadsIn(out[p], "finish")[n]
              = Len(Concat(PayloadsIn(out[p], "content")))

====
